---- MODULE Spec2Model ----
(***************************************************************************)
(* A model of the ontograph package: the term/triple codec (triple.go),    *)
(* the in-memory graph store (memory_store.go), the ontology mapping layer *)
(* and the TripleFilter builder (ontology graph source).                   *)
(*                                                                         *)
(* A Go string is a sequence of one-character strings.  The fixed          *)
(* vocabulary URIs and the test URIs are abbreviated: every maximal run of *)
(* characters that are not one of the delimiters < > " @ ^ # is written as *)
(* one letter, so "http://www.w3.org/2002/07/owl#Class" is o#C.            *)
(***************************************************************************)
EXTENDS Bags, FiniteSets, Integers, Sequences, TLC

VARIABLES
    uri,      \* MemoryStore.uri
    graph,    \* MemoryStore.graph: the rdf2go graph, a bag of rdf2go triples
    label,    \* OntologyGraph.label
    comment,  \* OntologyGraph.comment
    outer,    \* heap of backing arrays of [][]Triple slices
    inner,    \* heap of backing arrays of []Triple slices
    held,     \* the TripleFilter values a caller holds, with what they showed when obtained
    last,     \* the last completed call: operation, arguments, state before, results
    running   \* a bulk call under way: its position, triples done, and a second caller's call

vars == <<uri, graph, label, comment, outer, inner, held, last, running>>

(***************************************************************************)
(* Go strings                                                              *)
(***************************************************************************)

\* the error values and the outcome of a run-time panic
Nil == "nil"
Panic == "panic"
ErrTripleAlreadyExists == "ErrTripleAlreadyExists"
ErrTripleDoesNotExist == "ErrTripleDoesNotExist"
ErrResourceNotFound == "ErrResourceNotFound"
ErrResourceDoesNotBelongToGraph == "ErrResourceDoesNotBelongToGraph"

\* the value of a string expression whose evaluation panics
PanicString == <<"panic: slice bounds out of range">>

SetMax(S) == CHOOSE x \in S : \A y \in S : y <= x

\* strings.Contains(s, sub)
Contains(s, sub) ==
    \E i \in 0..(Len(s) - Len(sub)) : SubSeq(s, i + 1, i + Len(sub)) = sub

\* strings.LastIndex(s, sub): 0-based, -1 when absent
LastIndex(s, sub) ==
    LET I == {i \in 0..(Len(s) - Len(sub)) : SubSeq(s, i + 1, i + Len(sub)) = sub}
    IN  IF I = {} THEN -1 ELSE SetMax(I)

\* the slice expression s[lo:hi]
Slice(s, lo, hi) ==
    IF 0 <= lo /\ lo <= hi /\ hi <= Len(s) THEN SubSeq(s, lo + 1, hi) ELSE PanicString

(***************************************************************************)
(* triple.go: terms in NTriple format                                      *)
(***************************************************************************)

NewResourceTerm(u) == <<"<">> \o u \o <<">">>

NewLiteralTerm(literal, language, datatype) ==
    LET t0 == <<"\"">> \o literal \o <<"\"">>
        t1 == IF language # <<>> THEN t0 \o <<"@">> \o language ELSE t0
    IN  IF datatype # <<>> THEN t1 \o <<"^", "^", "<">> \o datatype \o <<">">> ELSE t1

IsResource(s) == Len(s) > 2 /\ s[1] = "<" /\ s[Len(s)] = ">"

IsLiteral(s) ==
    /\ Len(s) > 2
    /\ s[1] = "\""
    /\ \/ s[Len(s)] = "\""
       \/ Contains(s, <<"\"", "@">>)
       \/ Contains(s, <<"\"", "^", "^">>)

ValueShort(s) ==
    IF Len(s) > 2 THEN Slice(s, 1, Len(s) - 2) ELSE <<>>

Value(s) ==
    IF Len(s) > 2
    THEN IF s[1] = "<" /\ s[Len(s)] = ">" THEN Slice(s, 1, Len(s) - 1)
         ELSE IF s[1] = "\"" /\ s[Len(s)] = "\"" THEN Slice(s, 1, Len(s) - 1)
         ELSE IF s[1] = "\"" /\ Contains(s, <<"\"", "@">>)
              THEN Slice(s, 1, LastIndex(s, <<"@">>) - 1)
         ELSE IF s[1] = "\"" /\ Contains(s, <<"\"", "^", "^">>)
              THEN Slice(s, 1, LastIndex(s, <<"^", "^">>) - 1)
         ELSE <<>>
    ELSE <<>>

Language(s) ==
    IF Len(s) > 2 /\ s[1] = "\"" /\ Contains(s, <<"\"", "@">>)
    THEN Slice(s, LastIndex(s, <<"@">>) + 1, Len(s))
    ELSE <<>>

Datatype(s) ==
    IF Len(s) > 2 /\ s[1] = "\"" /\ Contains(s, <<"\"", "^", "^">>)
    THEN Value(Slice(s, LastIndex(s, <<"^", "^">>) + 2, Len(s)))
    ELSE <<>>

\* the Triple struct
Triple(s, p, o) == [Subject |-> s, Predicate |-> p, Object |-> o]

(***************************************************************************)
(* memory_store.go: the store over the rdf2go graph                        *)
(***************************************************************************)

\* an rdf2go term: nil, a Resource, a Literal with a language or a Literal
\* with a datatype resource; "panic" is the outcome of toTerm's panic
RdfTerm(k, v, l, d) == [kind |-> k, value |-> v, language |-> l, datatype |-> d]
NilTerm == RdfTerm("nil", <<>>, <<>>, <<>>)
PanicTerm == RdfTerm("panic", <<>>, <<>>, <<>>)

toTerm(term) ==
    IF term = <<>> THEN NilTerm
    ELSE IF IsResource(term) THEN RdfTerm("Resource", Value(term), <<>>, <<>>)
    ELSE IF IsLiteral(term)
         THEN IF Value(term) = PanicString \/ Language(term) = PanicString
                 \/ Datatype(term) = PanicString
              THEN PanicTerm
              ELSE IF Language(term) # <<>>
                   THEN RdfTerm("Literal", Value(term), Language(term), <<>>)
              ELSE IF Datatype(term) # <<>>
                   THEN RdfTerm("Literal", Value(term), <<>>, Datatype(term))
              ELSE RdfTerm("Literal", Value(term), <<>>, <<>>)
    ELSE PanicTerm


\* rdf2go's Literal.String escapes backslash and quote in the value
RECURSIVE Escape(_)
Escape(s) ==
    IF s = <<>> THEN <<>>
    ELSE IF Head(s) = "\\" THEN <<"\\", "\\">> \o Escape(Tail(s))
    ELSE IF Head(s) = "\"" THEN <<"\\", "\"">> \o Escape(Tail(s))
    ELSE <<Head(s)>> \o Escape(Tail(s))

\* rdf2go's Term.String: the NTriple text of a stored term
RdfString(t) ==
    IF t.kind = "Resource" THEN <<"<">> \o t.value \o <<">">>
    ELSE IF t.kind = "Literal"
         THEN <<"\"">> \o Escape(t.value) \o <<"\"">> \o
              (IF t.language # <<>> THEN <<"@">> \o t.language
               ELSE IF t.datatype # <<>> THEN <<"^", "^", "<">> \o t.datatype \o <<">">>
               ELSE <<>>)
    ELSE <<>>

\* the Triple the store hands out for a stored rdf2go triple
StoredTriple(t) ==
    Triple(RdfString(t.Subject), RdfString(t.Predicate), RdfString(t.Object))

\* rdf2go's pattern match of one stored triple, nil being the wildcard
MatchesPattern(t, s, p, o) ==
    /\ s = NilTerm \/ t.Subject = s
    /\ p = NilTerm \/ t.Predicate = p
    /\ o = NilTerm \/ t.Object = o

\* the stored triples graph.One(s, p, o) may return (nil when there is none)
One(g, s, p, o) == {t \in BagToSet(g) : MatchesPattern(t, s, p, o)}

RECURSIVE SeqOfSet(_)
SeqOfSet(S) ==
    IF S = {} THEN <<>>
    ELSE LET x == CHOOSE y \in S : TRUE IN <<x>> \o SeqOfSet(S \ {x})

RECURSIVE Repeat(_, _)
Repeat(x, n) == IF n <= 0 THEN <<>> ELSE <<x>> \o Repeat(x, n - 1)

RECURSIVE Flatten(_)
Flatten(ss) == IF ss = <<>> THEN <<>> ELSE Head(ss) \o Flatten(Tail(ss))

\* all enumerations of a finite set
Perms(S) == {q \in [1..Cardinality(S) -> S] : \A i, j \in 1..Cardinality(S) : q[i] = q[j] => i = j}

\* rdf2go keeps its triples in a Go map and IterTriples ranges over it in an
\* unspecified order.  An iteration order is an enumeration of the stored
\* subjects; the triples of one subject follow each other.
IterOrders(g) == Perms({t.Subject : t \in BagToSet(g)})

IterTriples(g, ord) ==
    LET OfSubject(s) == SeqOfSet({t \in BagToSet(g) : t.Subject = s})
        Copies(ts) == Flatten([i \in 1..Len(ts) |-> Repeat(ts[i], CopiesIn(ts[i], g))])
    IN  Flatten([i \in 1..Len(ord) |-> Copies(OfSubject(ord[i]))])

Result(g, e) == [graph |-> g, err |-> e]

RdfTriple(trp) ==
    [Subject |-> toTerm(trp.Subject), Predicate |-> toTerm(trp.Predicate),
     Object |-> toTerm(trp.Object)]

\* toTerm panics on one of the three terms
Panics(rt) == PanicTerm \in {rt.Subject, rt.Predicate, rt.Object}

GetAllMatches(g, subj, pred, obj, ord) ==
    LET Scan(pat) ==
            LET hit(t) == MatchesPattern(t, pat.Subject, pat.Predicate, pat.Object)
                Shown(found) == [i \in 1..Len(found) |-> StoredTriple(found[i])]
            IN  Shown(SelectSeq(IterTriples(g, ord), hit))
    IN  Scan(RdfTriple(Triple(subj, pred, obj)))

AddTripleAlways(g, trp) ==
    LET Add(rt) ==
            IF Panics(rt) THEN Result(g, Panic)
            ELSE IF One(g, rt.Subject, rt.Predicate, rt.Object) # {}
                 THEN Result(g (+) SetToBag({rt}), ErrTripleAlreadyExists)
            ELSE Result(g (+) SetToBag({rt}), Nil)
    IN  Add(RdfTriple(trp))

AddTriple(g, trp) ==
    LET Add(rt) ==
            IF Panics(rt) THEN Result(g, Panic)
            ELSE IF One(g, rt.Subject, rt.Predicate, rt.Object) # {}
                 THEN Result(g, ErrTripleAlreadyExists)
            ELSE Result(g (+) SetToBag({rt}), Nil)
    IN  Add(RdfTriple(trp))

AddTripleUncheckedDirect(g, trp) ==
    LET Add(rt) == IF Panics(rt) THEN Result(g, Panic) ELSE Result(g (+) SetToBag({rt}), Nil)
    IN  Add(RdfTriple(trp))

AddTripleUnchecked(g, trp) ==
    LET Ignore(r) == IF r.err = ErrTripleAlreadyExists THEN Result(r.graph, Nil) ELSE r
    IN  Ignore(AddTriple(g, trp))

RECURSIVE AddTriplesUncheckedFrom(_, _, _)
AddTriplesUncheckedFrom(g, trps, i) ==
    LET Then(r) == IF r.err # Nil THEN r ELSE AddTriplesUncheckedFrom(r.graph, trps, i + 1)
    IN  IF i > Len(trps) THEN Result(g, Nil) ELSE Then(AddTripleUnchecked(g, trps[i]))

AddTriplesUncheckedDirect(g, trps) ==
    IF \E i \in 1..Len(trps) : Panics(RdfTriple(trps[i])) THEN Result(g, Panic)
    ELSE Result(g (+) [rt \in {RdfTriple(trps[i]) : i \in 1..Len(trps)} |->
                         Cardinality({i \in 1..Len(trps) : RdfTriple(trps[i]) = rt})], Nil)

AddTriplesUnchecked(g, trps) == AddTriplesUncheckedFrom(g, trps, 1)

DeleteTriple(g, trp) ==
    LET Remove(rt, found) ==
            IF Panics(rt) THEN Result(g, Panic)
            ELSE IF found = {} THEN Result(g, ErrTripleDoesNotExist)
            ELSE Result(g (-) SetToBag({CHOOSE foundTrp \in found : TRUE}), Nil)
        Find(rt) == Remove(rt, One(g, rt.Subject, rt.Predicate, rt.Object))
    IN  Find(RdfTriple(trp))

DeleteTripleUnchecked(g, trp) ==
    LET Remove(rt, found) ==
            IF Panics(rt) THEN Result(g, Panic)
            ELSE IF found = {} THEN Result(g, Nil)
            ELSE Result(g (-) SetToBag({CHOOSE rdfTrp \in found : TRUE}), Nil)
        Find(rt) == Remove(rt, One(g, rt.Subject, rt.Predicate, rt.Object))
    IN  Find(RdfTriple(trp))

RECURSIVE DeleteTriplesUncheckedFrom(_, _, _)
DeleteTriplesUncheckedFrom(g, trps, i) ==
    LET Then(r) == IF r.err # Nil THEN r ELSE DeleteTriplesUncheckedFrom(r.graph, trps, i + 1)
    IN  IF i > Len(trps) THEN Result(g, Nil) ELSE Then(DeleteTripleUnchecked(g, trps[i]))

DeleteTriplesUnchecked(g, trps) == DeleteTriplesUncheckedFrom(g, trps, 1)

\* the loop and the rollback of AddTriples; a panic unwinds without rollback
RECURSIVE AddTriplesFrom(_, _, _, _)
AddTriplesFrom(g, trps, i, addedTrps) ==
    LET Then(r) ==
            IF r.err = Panic THEN r
            ELSE IF r.err # Nil
                 THEN Result(DeleteTriplesUnchecked(r.graph, addedTrps).graph, r.err)
            ELSE AddTriplesFrom(r.graph, trps, i + 1, Append(addedTrps, trps[i]))
    IN  IF i > Len(trps) THEN Result(g, Nil) ELSE Then(AddTriple(g, trps[i]))

AddTriplesRevokeAll(g, trps) ==
    LET Revoke(r) ==
            IF r.err = ErrTripleAlreadyExists
            THEN Result(DeleteTriplesUnchecked(r.graph, trps).graph, r.err)
            ELSE r
    IN  Revoke(AddTriplesFrom(g, trps, 1, <<>>))

AddTriples(g, trps) == AddTriplesFrom(g, trps, 1, <<>>)

\* the loop and the rollback of DeleteTriples
RECURSIVE DeleteTriplesFrom(_, _, _, _)
DeleteTriplesFrom(g, trps, i, deletedTrps) ==
    LET Then(r) ==
            IF r.err = Panic THEN r
            ELSE IF r.err # Nil
                 THEN Result(AddTriplesUnchecked(r.graph, deletedTrps).graph, r.err)
            ELSE DeleteTriplesFrom(r.graph, trps, i + 1, Append(deletedTrps, trps[i]))
    IN  IF i > Len(trps) THEN Result(g, Nil) ELSE Then(DeleteTriple(g, trps[i]))

DeleteTriplesRevokeAll(g, trps) ==
    LET Revoke(r) ==
            IF r.err = ErrTripleDoesNotExist
            THEN Result(AddTriplesUnchecked(r.graph, trps).graph, r.err)
            ELSE r
    IN  Revoke(DeleteTriplesFrom(g, trps, 1, <<>>))

DeleteTriples(g, trps) == DeleteTriplesFrom(g, trps, 1, <<>>)

DeleteAllMatches(g, subj, pred, obj, ord) ==
    IF Panics(RdfTriple(Triple(subj, pred, obj))) THEN Result(g, Panic)
    ELSE DeleteTriplesUnchecked(g, GetAllMatches(g, subj, pred, obj, ord))

\* what GetAllTriples shows as a set, and Size
TripleSet(g) == {StoredTriple(t) : t \in BagToSet(g)}
Size(g) == BagCardinality(g)


(***************************************************************************)
(* The store under its callers                                             *)
(***************************************************************************)

MaxBulk == 3   \* longest triple list handed to a bulk operation

\* the graph URI of the store under test, "https://www.ontograph.com/test"
BaseURI == <<"b">>

InGraph(name) == BaseURI \o <<"#">> \o name

NewTripleAnyObject(subj, pred, obj) ==
    IF ~IsResource(subj) THEN [trp |-> <<>>, err |-> "Subject is not a resource"]
    ELSE IF ~IsResource(pred) THEN [trp |-> <<>>, err |-> "Predicate is not a resource"]
    ELSE [trp |-> Triple(subj, pred, obj), err |-> Nil]

\* triple.go NewTriple: the triple, or an error and no triple
NewTriple(subj, pred, obj) ==
    IF ~IsResource(subj) THEN [trp |-> <<>>, err |-> "Subject is not a resource"]
    ELSE IF ~IsResource(pred) THEN [trp |-> <<>>, err |-> "Predicate is not a resource"]
    ELSE IF ~IsResource(obj) /\ ~IsLiteral(obj)
         THEN [trp |-> <<>>, err |-> "Object is not a resource or literal"]
    ELSE [trp |-> Triple(subj, pred, obj), err |-> Nil]

\* the triples the callers work with: a resource object and the three literal forms
TestTriples ==
    { NewTriple(NewResourceTerm(BaseURI), NewResourceTerm(InGraph(<<"r">>)),
                NewResourceTerm(InGraph(<<"a">>))).trp,
      NewTriple(NewResourceTerm(InGraph(<<"a">>)), NewResourceTerm(InGraph(<<"r">>)),
                NewLiteralTerm(<<"v">>, <<>>, <<>>)).trp,
      NewTriple(NewResourceTerm(InGraph(<<"a">>)), NewResourceTerm(InGraph(<<"r">>)),
                NewLiteralTerm(<<"v">>, <<"e">>, <<>>)).trp,
      NewTriple(NewResourceTerm(InGraph(<<"a">>)), NewResourceTerm(InGraph(<<"r">>)),
                NewLiteralTerm(<<"v">>, <<>>, InGraph(<<"d">>))).trp }

TripleLists == UNION {[1..n -> TestTriples] : n \in 0..MaxBulk}

Range(f) == {f[i] : i \in DOMAIN f}

EmptyMap == [k \in {} |-> <<>>]

\* the record of a completed call
Call(o, a, e, r) ==
    [op |-> o, args |-> a, pre |-> graph, preLabel |-> label, preComment |-> comment,
     err |-> e, out |-> r]

\* no call is under way: the caller has read the result of its last call
Idle ==
    [op |-> "idle", args |-> <<>>, pre |-> EmptyBag, preLabel |-> EmptyMap,
     preComment |-> EmptyMap, err |-> Nil, out |-> <<>>]

NoFilters == <<>>

\* no bulk call is under way and no second caller has called
NoCall ==
    [pc |-> "idle", op |-> "", trps |-> <<>>, i |-> 0, done |-> <<>>, err |-> Nil,
     start |-> EmptyBag, second |-> <<>>, order |-> ""]

\* NewMemoryStore(uri)
Init ==
    /\ uri = BaseURI
    /\ graph = EmptyBag
    /\ label = EmptyMap
    /\ comment = EmptyMap
    /\ outer = <<>>
    /\ inner = <<>>
    /\ held = NoFilters
    /\ last = Idle
    /\ running = NoCall

\* a store operation op applied to argument a by a caller
StoreCall(name, a, r) ==
    /\ last = Idle
    /\ graph' = r.graph
    /\ last' = Call(name, a, r.err, <<>>)
    /\ UNCHANGED <<uri, label, comment, outer, inner, held, running>>

CallAddTriple == \E t \in TestTriples : StoreCall("AddTriple", <<t>>, AddTriple(graph, t))

CallAddTriples == \E L \in TripleLists : StoreCall("AddTriples", L, AddTriples(graph, L))

CallAddTripleUnchecked ==
    \E t \in TestTriples : StoreCall("AddTripleUnchecked", <<t>>, AddTripleUnchecked(graph, t))

CallAddTriplesUnchecked ==
    \E L \in TripleLists : StoreCall("AddTriplesUnchecked", L, AddTriplesUnchecked(graph, L))

CallDeleteTriple ==
    \E t \in TestTriples : StoreCall("DeleteTriple", <<t>>, DeleteTriple(graph, t))

CallDeleteTriples ==
    \E L \in TripleLists : StoreCall("DeleteTriples", L, DeleteTriples(graph, L))

CallDeleteTripleUnchecked ==
    \E t \in TestTriples :
        StoreCall("DeleteTripleUnchecked", <<t>>, DeleteTripleUnchecked(graph, t))

CallDeleteTriplesUnchecked ==
    \E L \in TripleLists :
        StoreCall("DeleteTriplesUnchecked", L, DeleteTriplesUnchecked(graph, L))

\* the caller has read the result and turns to its next call
Return ==
    /\ last # Idle
    /\ last' = Idle
    /\ UNCHANGED <<uri, graph, label, comment, outer, inner, held, running>>

NextStore ==
    \/ CallAddTriple
    \/ CallAddTriples
    \/ CallAddTripleUnchecked
    \/ CallAddTriplesUnchecked
    \/ CallDeleteTriple
    \/ CallDeleteTriples
    \/ CallDeleteTripleUnchecked
    \/ CallDeleteTriplesUnchecked
    \/ Return

SpecStore == Init /\ [][NextStore]_vars

(***************************************************************************)
(* Claims about the store                                                  *)
(***************************************************************************)

\* some element of L is in S or repeats an earlier element of L
AddConflict(S, L) ==
    \E i \in 1..Len(L) : L[i] \in S \/ \E j \in 1..(i - 1) : L[j] = L[i]

\* some element of L is absent from S or repeats an earlier element of L
DeleteConflict(S, L) ==
    \E i \in 1..Len(L) : L[i] \notin S \/ \E j \in 1..(i - 1) : L[j] = L[i]

NoDuplicates(g) == \A t \in BagToSet(g) : CopiesIn(t, g) = 1

\* C1: AddTriples(L) on a store holding S either succeeds and leaves S \cup set(L),
\* or, exactly when an element of L is in S or repeats an earlier element,
\* returns ErrTripleAlreadyExists and leaves the store exactly as it was.
C1_AddTriplesAllOrNothing ==
    last.op = "AddTriples" =>
        LET S == TripleSet(last.pre)
            L == last.args
        IN  /\ last.err \in {Nil, ErrTripleAlreadyExists}
            /\ (last.err = ErrTripleAlreadyExists) <=> AddConflict(S, L)
            /\ last.err = Nil => TripleSet(graph) = S \cup Range(L) /\ NoDuplicates(graph)
            /\ last.err = ErrTripleAlreadyExists => graph = last.pre

\* a failed AddTriples that had added a triple before it met one already stored
C1_Witness ==
    /\ last.op = "AddTriples"
    /\ last.err = ErrTripleAlreadyExists
    /\ Len(last.args) = 3
    /\ last.args[1] \notin TripleSet(last.pre)
    /\ last.args[2] \notin TripleSet(last.pre)
    /\ last.args[3] \in TripleSet(last.pre)

\* C2: DeleteTriples(L) on a store holding S either succeeds and leaves S \ set(L),
\* or, exactly when an element of L is absent from S or repeats an earlier
\* element, returns ErrTripleDoesNotExist and leaves the store exactly as it was.
C2_DeleteTriplesAllOrNothing ==
    last.op = "DeleteTriples" =>
        LET S == TripleSet(last.pre)
            L == last.args
        IN  /\ last.err \in {Nil, ErrTripleDoesNotExist}
            /\ (last.err = ErrTripleDoesNotExist) <=> DeleteConflict(S, L)
            /\ last.err = Nil => TripleSet(graph) = S \ Range(L) /\ NoDuplicates(graph)
            /\ last.err = ErrTripleDoesNotExist => graph = last.pre

\* a failed DeleteTriples that had deleted a triple before it met an absent one
C2_Witness ==
    /\ last.op = "DeleteTriples"
    /\ last.err = ErrTripleDoesNotExist
    /\ Len(last.args) >= 2
    /\ last.args[1] \in TripleSet(last.pre)
    /\ last.args[2] \notin TripleSet(last.pre)

\* C9: AddTriple(t) with t stored returns ErrTripleAlreadyExists, DeleteTriple(t)
\* with t absent returns ErrTripleDoesNotExist, both leaving the store as it
\* was; otherwise AddTriple adds exactly t and DeleteTriple removes exactly t.
C9_CheckedSingle ==
    LET S == TripleSet(last.pre)
        t == last.args[1]
    IN  /\ last.op = "AddTriple" =>
            IF t \in S
            THEN last.err = ErrTripleAlreadyExists /\ graph = last.pre
            ELSE /\ last.err = Nil
                 /\ TripleSet(graph) = S \cup {t}
                 /\ Size(graph) = Size(last.pre) + 1
        /\ last.op = "DeleteTriple" =>
            IF t \notin S
            THEN last.err = ErrTripleDoesNotExist /\ graph = last.pre
            ELSE /\ last.err = Nil
                 /\ TripleSet(graph) = S \ {t}
                 /\ Size(graph) = Size(last.pre) - 1

\* an AddTriple that met its triple in a store that also holds another one
C9_Witness ==
    /\ last.op = "AddTriple"
    /\ last.err = ErrTripleAlreadyExists
    /\ Cardinality(TripleSet(graph)) >= 2

\* C10: the unchecked mutations return no error; the adds leave S \cup {t} resp.
\* S \cup set(L) with one copy of each triple and change nothing when applied
\* again; the deletes leave S \ {t} resp. S \ set(L) and change nothing for
\* absent triples.
C10_UncheckedIdempotent ==
    LET S == TripleSet(last.pre)
        L == last.args
    IN  /\ last.op \in {"AddTripleUnchecked", "AddTriplesUnchecked"} =>
            /\ last.err = Nil
            /\ TripleSet(graph) = S \cup Range(L)
            /\ NoDuplicates(graph)
            /\ AddTriplesUnchecked(graph, L) = Result(graph, Nil)
        /\ last.op \in {"DeleteTripleUnchecked", "DeleteTriplesUnchecked"} =>
            /\ last.err = Nil
            /\ TripleSet(graph) = S \ Range(L)
            /\ NoDuplicates(graph)
            /\ Range(L) \cap S = {} => graph = last.pre
            /\ DeleteTriplesUnchecked(graph, L) = Result(graph, Nil)

\* an unchecked bulk add of a list that repeats a triple and names a stored one
C10_Witness ==
    /\ last.op = "AddTriplesUnchecked"
    /\ Len(last.args) = 3
    /\ last.args[1] = last.args[3]
    /\ last.args[2] \in TripleSet(last.pre)
    /\ last.args[1] \notin TripleSet(last.pre)


(***************************************************************************)
(* The fixed vocabulary (abbreviated, see the head of the module)          *)
(***************************************************************************)

OWLOntology == <<"o", "#", "O">>
OWLVersionInfo == <<"o", "#", "v">>
OWLImports == <<"o", "#", "i">>
OWLClass == <<"o", "#", "C">>
OWLEquivalentClass == <<"o", "#", "e">>
OWLDisjointWith == <<"o", "#", "d">>
OWLNamedIndividual == <<"o", "#", "N">>
OWLSameAs == <<"o", "#", "s">>
RDFType == <<"r", "#", "t">>
RDFSComment == <<"s", "#", "c">>
RDFSLabel == <<"s", "#", "l">>
RDFSSubClassOf == <<"s", "#", "u">>
XSDString == <<"x", "#", "s">>

(***************************************************************************)
(* TripleFilter: a [][]Triple slice value over shared backing arrays       *)
(***************************************************************************)

MaxFilterCalls == 3   \* builder calls a caller makes

\* a slice header; arr = 0 is the nil array
SliceOf(a, l, c) == [arr |-> a, len |-> l, cap |-> c]
NilSlice == SliceOf(0, 0, 0)
ZeroTriple == Triple(<<>>, <<>>, <<>>)

\* the capacity append gives a grown array (runtime growslice, small slices)
GrowCap(oldCap, newLen) == IF newLen > 2 * oldCap THEN newLen ELSE 2 * oldCap

\* append(s, x) for a slice s over the heap of arrays: in place when the
\* capacity allows, else into a new array
GoAppend(heap, s, x, zero) ==
    IF s.len < s.cap
    THEN [heap |-> [heap EXCEPT ![s.arr][s.len + 1] = x],
          slice |-> SliceOf(s.arr, s.len + 1, s.cap)]
    ELSE LET c == GrowCap(s.cap, s.len + 1)
             cells == [i \in 1..c |-> IF i <= s.len THEN heap[s.arr][i]
                                      ELSE IF i = s.len + 1 THEN x ELSE zero]
         IN  [heap |-> Append(heap, cells), slice |-> SliceOf(Len(heap) + 1, s.len + 1, c)]

\* what a holder of the filter value f reads: its groups and their patterns
View(o, in, f) ==
    [i \in 1..f.len |->
        LET grp == o[f.arr][i] IN [j \in 1..grp.len |-> in[grp.arr][j]]]

Built(o, in, f) == [outer |-> o, inner |-> in, filter |-> f]

\* filter = append(filter, []Triple{filterTrp})
AppendOr(o, in, filter, filterTrp) ==
    LET grp == GoAppend(in, NilSlice, filterTrp, ZeroTriple)
        r == GoAppend(o, filter, grp.slice, NilSlice)
    IN  Built(r.heap, grp.heap, r.slice)

AppendAndAsGroup(o, in, filter, filterTrp) ==
    LET Outer(grp) ==
            LET Grown(r) == Built(r.heap, grp.heap, r.slice)
            IN  Grown(GoAppend(o, filter, grp.slice, NilSlice))
    IN  Outer(GoAppend(in, NilSlice, filterTrp, ZeroTriple))

\* filter[len(filter)-1] = append(filter[len(filter)-1], filterTrp), after a
\* first empty group was appended to an empty filter
AppendAnd(o, in, filter, filterTrp) ==
    LET r == IF filter.len = 0 THEN GoAppend(o, filter, NilSlice, NilSlice)
             ELSE [heap |-> o, slice |-> filter]
        f == r.slice
        grp == GoAppend(in, r.heap[f.arr][f.len], filterTrp, ZeroTriple)
    IN  Built([r.heap EXCEPT ![f.arr][f.len] = grp.slice], grp.heap, f)

ClassPattern(classURI) == Triple(<<>>, NewResourceTerm(RDFType), NewResourceTerm(classURI))
ObjectPropertyPattern(propertyURI, objectURI) ==
    Triple(<<>>, NewResourceTerm(propertyURI), NewResourceTerm(objectURI))
DataPropertyPattern(propertyURI, literal) ==
    Triple(<<>>, NewResourceTerm(propertyURI), literal.value)

OrWithClass(o, in, filter, classURI) == AppendOr(o, in, filter, ClassPattern(classURI))

AndWithClass(o, in, filter, classURI) == AppendAnd(o, in, filter, ClassPattern(classURI))

OrWithObjectProperty(o, in, filter, propertyURI, objectURI) ==
    AppendOr(o, in, filter, ObjectPropertyPattern(propertyURI, objectURI))

AndWithObjectProperty(o, in, filter, propertyURI, objectURI) ==
    AppendAnd(o, in, filter, ObjectPropertyPattern(propertyURI, objectURI))

OrWithDataProperty(o, in, filter, propertyURI, literal) ==
    AppendOr(o, in, filter, DataPropertyPattern(propertyURI, literal))

AndWithDataProperty(o, in, filter, propertyURI, literal) ==
    AppendAnd(o, in, filter, DataPropertyPattern(propertyURI, literal))

\* NewGenericLiteral(t)
NewGenericLiteral(t) == [value |-> t, datatype |-> [URI |-> Datatype(t)]]

\* XSDStringLiteral(l).Generic()
XSDStringGeneric(l) == NewGenericLiteral(NewLiteralTerm(l, <<>>, XSDString))

\* what the callers filter by
FilterClasses == {InGraph(<<"K">>), InGraph(<<"T">>)}
FilterProperty == InGraph(<<"p">>)
FilterTarget == InGraph(<<"j">>)
FilterLiteral == XSDStringGeneric(<<"v">>)

\* TripleFilter{}
EmptyFilter == NilSlice

\* the filter values the caller can call a builder on: the empty literal and
\* every filter a builder returned
Receivers == {EmptyFilter} \cup {held[i].filter : i \in 1..Len(held)}

\* the caller keeps the returned filter and notes what it shows
Keep(b) ==
    /\ last = Idle
    /\ Len(held) < MaxFilterCalls
    /\ outer' = b.outer
    /\ inner' = b.inner
    /\ held' = Append(held, [filter |-> b.filter, seen |-> View(b.outer, b.inner, b.filter)])
    /\ UNCHANGED <<uri, graph, label, comment, last, running>>

CallOrWithClass ==
    \E f \in Receivers, c \in FilterClasses : Keep(OrWithClass(outer, inner, f, c))

CallAndWithClass ==
    \E f \in Receivers, c \in FilterClasses : Keep(AndWithClass(outer, inner, f, c))

CallOrWithObjectProperty ==
    \E f \in Receivers :
        Keep(OrWithObjectProperty(outer, inner, f, FilterProperty, FilterTarget))

CallAndWithObjectProperty ==
    \E f \in Receivers :
        Keep(AndWithObjectProperty(outer, inner, f, FilterProperty, FilterTarget))

CallOrWithDataProperty ==
    \E f \in Receivers :
        Keep(OrWithDataProperty(outer, inner, f, FilterProperty, FilterLiteral))

CallAndWithDataProperty ==
    \E f \in Receivers :
        Keep(AndWithDataProperty(outer, inner, f, FilterProperty, FilterLiteral))

NextFilter ==
    \/ CallOrWithClass
    \/ CallAndWithClass
    \/ CallOrWithObjectProperty
    \/ CallAndWithObjectProperty
    \/ CallOrWithDataProperty
    \/ CallAndWithDataProperty

SpecFilter == Init /\ [][NextFilter]_vars

\* C3: every builder call leaves every filter value obtained earlier unchanged:
\* each filter the caller holds still shows the groups and patterns it showed
\* when the caller obtained it.
C3_FiltersImmutable ==
    \A i \in 1..Len(held) : View(outer, inner, held[i].filter) = held[i].seen


(***************************************************************************)
(* OntologyGraph: the ontology's own triples and the label/comment cache   *)
(***************************************************************************)

ErrOntologyNotFound == "ErrOntologyNotFound"
ErrOntologyAlreadyExists == "ErrOntologyAlreadyExists"

\* a Go map: m[k] = v, and the read m[k] that gives "" for a missing key
MapPut(m, k, v) == [x \in DOMAIN m \cup {k} |-> IF x = k THEN v ELSE m[x]]
MapGet(m, k) == IF k \in DOMAIN m THEN m[k] ELSE <<>>

\* the triple on the ontology's own URI
OntologyTriple(u, pred, obj) == Triple(NewResourceTerm(u), NewResourceTerm(pred), obj)

MarkerTriple(u) == OntologyTriple(u, RDFType, NewResourceTerm(OWLOntology))

\* InitOntologyGraph(graph) on the store g with URI u
InitOntologyGraph(g, u) ==
    LET Create(m) ==
            IF Panics(m)
            THEN [graph |-> g, err |-> Panic, label |-> EmptyMap, comment |-> EmptyMap]
            ELSE IF One(g, m.Subject, m.Predicate, m.Object) # {}
                 THEN [graph |-> g, err |-> ErrOntologyAlreadyExists,
                       label |-> EmptyMap, comment |-> EmptyMap]
            ELSE [graph |-> AddTripleUnchecked(g, MarkerTriple(u)).graph, err |-> Nil,
                  label |-> EmptyMap, comment |-> EmptyMap]
    IN  Create(RdfTriple(MarkerTriple(u)))

\* the map LoadOntologyGraph fills from the label or comment triples, in scan order
RECURSIVE FoldLanguageMap(_, _, _)
FoldLanguageMap(trps, i, m) ==
    IF i > Len(trps) THEN m
    ELSE FoldLanguageMap(trps, i + 1,
                         MapPut(m, Language(trps[i].Object), Value(trps[i].Object)))

\* LoadOntologyGraph(graph) on the store g with URI u, iterated in order ord
LoadOntologyGraph(g, u, ord) ==
    LET Scanned(pred) ==
            FoldLanguageMap(
                GetAllMatches(g, NewResourceTerm(u), NewResourceTerm(pred), <<>>, ord),
                1, EmptyMap)
        Load(m) ==
            IF Panics(m) THEN [err |-> Panic, label |-> EmptyMap, comment |-> EmptyMap]
            ELSE IF One(g, m.Subject, m.Predicate, m.Object) = {}
                 THEN [err |-> ErrOntologyNotFound, label |-> EmptyMap, comment |-> EmptyMap]
            ELSE [err |-> Nil, label |-> Scanned(RDFSLabel), comment |-> Scanned(RDFSComment)]
    IN  Load(RdfTriple(MarkerTriple(u)))

\* SetLabel and SetComment, which differ in the predicate and the map only:
\* the store g with URI u, the cache m, the new text and its language
SetText(g, u, m, pred, text, lang) ==
    LET Added(a) ==
            IF a.err # Nil THEN [graph |-> a.graph, map |-> m, err |-> a.err]
            ELSE [graph |-> a.graph, map |-> MapPut(m, lang, text), err |-> Nil]
        Deleted(d) ==
            IF d.err # Nil THEN [graph |-> d.graph, map |-> m, err |-> d.err]
            ELSE IF text = <<>> THEN [graph |-> d.graph, map |-> m, err |-> Nil]
            ELSE Added(AddTripleUnchecked(
                     d.graph, OntologyTriple(u, pred, NewLiteralTerm(text, lang, <<>>))))
    IN  Deleted(IF lang \in DOMAIN m
                THEN DeleteTripleUnchecked(
                         g, OntologyTriple(u, pred, NewLiteralTerm(m[lang], lang, <<>>)))
                ELSE Result(g, Nil))

SetLabel(g, u, m, text, lang) == SetText(g, u, m, RDFSLabel, text, lang)

SetComment(g, u, m, text, lang) == SetText(g, u, m, RDFSComment, text, lang)

GetLabel(m, lang) == MapGet(m, lang)

GetComment(m, lang) == MapGet(m, lang)

\* the texts and language codes the callers use; the empty text removes
Texts == {<<>>, <<"l">>, <<"m">>}
Languages == {<<>>, <<"e">>}

\* NewMemoryStore(uri) followed by InitOntologyGraph(store)
InitOnt ==
    /\ uri = BaseURI
    /\ \E ont \in {InitOntologyGraph(EmptyBag, BaseURI)} :
           /\ graph = ont.graph
           /\ label = ont.label
           /\ comment = ont.comment
    /\ outer = <<>>
    /\ inner = <<>>
    /\ held = NoFilters
    /\ last = Idle
    /\ running = NoCall

CallSetLabel ==
    \E text \in Texts, lang \in Languages :
        /\ last = Idle
        /\ \E r \in {SetLabel(graph, uri, label, text, lang)} :
            /\ graph' = r.graph
            /\ label' = r.map
            /\ last' = Call("SetLabel", <<text, lang>>, r.err, <<>>)
            /\ UNCHANGED <<uri, comment, outer, inner, held, running>>

CallSetComment ==
    \E text \in Texts, lang \in Languages :
        /\ last = Idle
        /\ \E r \in {SetComment(graph, uri, comment, text, lang)} :
            /\ graph' = r.graph
            /\ comment' = r.map
            /\ last' = Call("SetComment", <<text, lang>>, r.err, <<>>)
            /\ UNCHANGED <<uri, label, outer, inner, held, running>>

NextMeta ==
    \/ CallSetLabel
    \/ CallSetComment
    \/ Return

SpecMeta == InitOnt /\ [][NextMeta]_vars

\* the value of the triple stored on the ontology's URI for predicate pred and
\* language lang, and the empty string when the store holds none
StoredText(g, u, pred, lang) ==
    LET objs == {t.Object : t \in {x \in TripleSet(g) :
                     /\ x.Subject = NewResourceTerm(u)
                     /\ x.Predicate = NewResourceTerm(pred)
                     /\ Language(x.Object) = lang}}
    IN  IF objs = {} THEN <<>> ELSE Value(CHOOSE o \in objs : TRUE)

\* C6: under every sequence of SetLabel/SetComment calls on one instance,
\* GetLabel(l) is the value of the label triple stored on the base URI for l,
\* or the empty string when the store holds none, and is what a freshly
\* loaded instance returns; the same for GetComment.
C6_CacheInSync ==
    \A lang \in Languages, ord \in IterOrders(graph) :
        /\ GetLabel(label, lang) = StoredText(graph, uri, RDFSLabel, lang)
        /\ GetLabel(label, lang) = GetLabel(LoadOntologyGraph(graph, uri, ord).label, lang)
        /\ GetComment(comment, lang) = StoredText(graph, uri, RDFSComment, lang)
        /\ GetComment(comment, lang) = GetComment(LoadOntologyGraph(graph, uri, ord).comment, lang)


(***************************************************************************)
(* Resources: classes and individuals, and their triples                   *)
(***************************************************************************)

\* the OntologyIndividual and OntologyClass structs; kind is the Go type
\* behind the OntologyResource interface
Individual(u, types, same, objProps, dataProps, lbl, cmt) ==
    [kind |-> "Individual", URI |-> u, Types |-> types, SameIndividualAs |-> same,
     ObjectProperties |-> objProps, DataProperties |-> dataProps,
     Label |-> lbl, Comment |-> cmt]

Class(u, equiv, sub, disj, lbl, cmt) ==
    [kind |-> "Class", URI |-> u, EquivalentTo |-> equiv, SubClassOf |-> sub,
     DisjointWith |-> disj, Label |-> lbl, Comment |-> cmt]

\* OntologyIndividual{} and OntologyClass{}
ZeroIndividual == Individual(<<>>, <<>>, <<>>, EmptyMap, EmptyMap, EmptyMap, EmptyMap)
ZeroClass == Class(<<>>, <<>>, <<>>, <<>>, EmptyMap, EmptyMap)

\* one triple per URI of a []string field
ResourceTriples(subj, pred, uris) ==
    [i \in 1..Len(uris) |-> Triple(subj, NewResourceTerm(pred), NewResourceTerm(uris[i]))]

\* the range over a map: its keys in the order the run-time picks.  The
\* resources of this model hold at most one key per map, which leaves one order.
Keys(m) == SeqOfSet(DOMAIN m)

\* the triples of a map[string][]string and of a map[string][]GenericLiteral
ObjectPropertyTriples(subj, m) ==
    Flatten([k \in 1..Len(Keys(m)) |-> ResourceTriples(subj, Keys(m)[k], m[Keys(m)[k]])])

DataPropertyTriples(subj, m) ==
    Flatten([k \in 1..Len(Keys(m)) |->
        [i \in 1..Len(m[Keys(m)[k]]) |->
            Triple(subj, NewResourceTerm(Keys(m)[k]), m[Keys(m)[k]][i].value)]])

\* the triples of a map[string]string from language to text
LanguageTriples(subj, pred, m) ==
    [k \in 1..Len(Keys(m)) |->
        Triple(subj, NewResourceTerm(pred), NewLiteralTerm(m[Keys(m)[k]], Keys(m)[k], <<>>))]

IndividualToTriples(indiv) ==
    LET Of(subj) ==
            <<Triple(subj, NewResourceTerm(RDFType), NewResourceTerm(OWLNamedIndividual))>>
            \o ResourceTriples(subj, RDFType, indiv.Types)
            \o ResourceTriples(subj, OWLSameAs, indiv.SameIndividualAs)
            \o ObjectPropertyTriples(subj, indiv.ObjectProperties)
            \o DataPropertyTriples(subj, indiv.DataProperties)
            \o LanguageTriples(subj, RDFSLabel, indiv.Label)
            \o LanguageTriples(subj, RDFSComment, indiv.Comment)
    IN  Of(NewResourceTerm(indiv.URI))

ClassToTriples(class) ==
    LET Of(subj) ==
            <<Triple(subj, NewResourceTerm(RDFType), NewResourceTerm(OWLClass))>>
            \o ResourceTriples(subj, OWLEquivalentClass, class.EquivalentTo)
            \o ResourceTriples(subj, RDFSSubClassOf, class.SubClassOf)
            \o ResourceTriples(subj, OWLDisjointWith, class.DisjointWith)
            \o LanguageTriples(subj, RDFSLabel, class.Label)
            \o LanguageTriples(subj, RDFSComment, class.Comment)
    IN  Of(NewResourceTerm(class.URI))

\* resource.ToTriples() through the OntologyResource interface
ToTriples(resource) ==
    IF resource.kind = "Individual" THEN IndividualToTriples(resource)
    ELSE ClassToTriples(resource)

\* resource.GetURI()
GetURI(resource) == resource.URI


(***************************************************************************)
(* OntologyGraph: resources in the store                                   *)
(***************************************************************************)

\* DeleteResource(uri): the triples with <uri> as subject, then the triples
\* with <uri> as object.  The second scan runs over what the first left, in
\* the order ord restricted to the subjects that remain.
DeleteResource(g, resourceURI, ord) ==
    LET Second(r) ==
            IF r.err # Nil THEN r
            ELSE DeleteAllMatches(r.graph, <<>>, <<>>, NewResourceTerm(resourceURI), ord)
    IN  Second(DeleteAllMatches(g, NewResourceTerm(resourceURI), <<>>, <<>>, ord))

\* UpsertResource(resource) on the store g whose graph URI is u
UpsertResource(g, u, resource, ord) ==
    LET Insert(r) ==
            IF r.err # Nil THEN r ELSE AddTriplesUnchecked(r.graph, ToTriples(resource))
        Checked(prefix) ==
            IF prefix = PanicString THEN Result(g, Panic)
            ELSE IF prefix # u THEN Result(g, ErrResourceDoesNotBelongToGraph)
            ELSE Insert(DeleteResource(g, GetURI(resource), ord))
    IN  Checked(Slice(GetURI(resource), 0, LastIndex(GetURI(resource), <<"#">>)))

Found(res, e) == [res |-> res, err |-> e]

\* the loop of GetClass over the triples of the subject
RECURSIVE ParseClass(_, _, _, _)
ParseClass(trps, i, class, classURI) ==
    LET Step(trp) ==
            IF trp.Predicate = NewResourceTerm(RDFType) /\ trp.Object = NewResourceTerm(OWLClass)
            THEN [class EXCEPT !.URI = classURI]
            ELSE IF trp.Predicate = NewResourceTerm(OWLEquivalentClass)
            THEN [class EXCEPT !.EquivalentTo = Append(@, Value(trp.Object))]
            ELSE IF trp.Predicate = NewResourceTerm(RDFSSubClassOf)
            THEN [class EXCEPT !.SubClassOf = Append(@, Value(trp.Object))]
            ELSE IF trp.Predicate = NewResourceTerm(OWLDisjointWith)
            THEN [class EXCEPT !.DisjointWith = Append(@, Value(trp.Object))]
            ELSE IF trp.Predicate = NewResourceTerm(RDFSLabel)
            THEN [class EXCEPT !.Label = MapPut(@, Language(trp.Object), Value(trp.Object))]
            ELSE IF trp.Predicate = NewResourceTerm(RDFSComment)
            THEN [class EXCEPT !.Comment = MapPut(@, Language(trp.Object), Value(trp.Object))]
            ELSE class
    IN  IF i > Len(trps) THEN class
        ELSE ParseClass(trps, i + 1, Step(trps[i]), classURI)

GetClass(g, classURI, ord) ==
    LET Parsed(class) ==
            IF class.URI = <<>> THEN Found(ZeroClass, ErrResourceNotFound)
            ELSE Found(class, Nil)
    IN  Parsed(ParseClass(GetAllMatches(g, NewResourceTerm(classURI), <<>>, <<>>, ord),
                          1, ZeroClass, classURI))

\* the loop of GetIndividual over the triples of the subject
RECURSIVE ParseIndividual(_, _, _, _)
ParseIndividual(trps, i, indiv, indivURI) ==
    LET Property(obj, prop) ==
            IF IsResource(obj)
            THEN [indiv EXCEPT !.ObjectProperties =
                      MapPut(@, prop, Append(MapGet(@, prop), Value(obj)))]
            ELSE IF IsLiteral(obj)
            THEN [indiv EXCEPT !.DataProperties =
                      MapPut(@, prop, Append(MapGet(@, prop), NewGenericLiteral(obj)))]
            ELSE indiv
        Step(trp) ==
            IF /\ trp.Predicate = NewResourceTerm(RDFType)
               /\ trp.Object = NewResourceTerm(OWLNamedIndividual)
            THEN [indiv EXCEPT !.URI = indivURI]
            ELSE IF trp.Predicate = NewResourceTerm(RDFType)
            THEN [indiv EXCEPT !.Types = Append(@, Value(trp.Object))]
            ELSE IF trp.Predicate = NewResourceTerm(OWLSameAs)
            THEN [indiv EXCEPT !.SameIndividualAs = Append(@, Value(trp.Object))]
            ELSE IF trp.Predicate = NewResourceTerm(RDFSLabel)
            THEN [indiv EXCEPT !.Label = MapPut(@, Language(trp.Object), Value(trp.Object))]
            ELSE IF trp.Predicate = NewResourceTerm(RDFSComment)
            THEN [indiv EXCEPT !.Comment = MapPut(@, Language(trp.Object), Value(trp.Object))]
            ELSE Property(trp.Object, Value(trp.Predicate))
    IN  IF i > Len(trps) THEN indiv
        ELSE ParseIndividual(trps, i + 1, Step(trps[i]), indivURI)

GetIndividual(g, indivURI, ord) ==
    LET Parsed(indiv) ==
            IF indiv.URI = <<>> THEN Found(ZeroIndividual, ErrResourceNotFound)
            ELSE Found(indiv, Nil)
    IN  Parsed(ParseIndividual(GetAllMatches(g, NewResourceTerm(indivURI), <<>>, <<>>, ord),
                               1, ZeroIndividual, indivURI))

\* the subject values of the triples a scan returned
Subjects(trps) == [i \in 1..Len(trps) |-> Value(trps[i].Subject)]

InList(list, x) == \E i \in 1..Len(list) : list[i] = x

\* every subject that has an rdf:type triple
AllTyped(g, ord) ==
    Subjects(GetAllMatches(g, <<>>, NewResourceTerm(RDFType), <<>>, ord))

AllIndividuals(g, ord) ==
    Subjects(GetAllMatches(g, <<>>, NewResourceTerm(RDFType),
                           NewResourceTerm(OWLNamedIndividual), ord))

\* andCandidates: nil before the first pattern of a group, a list afterwards
Pool(n, l) == [isNil |-> n, list |-> l]

\* the patterns of one group from the j-th on; the scan of the pattern at
\* position k of the whole filter iterates the store in the order ords[k]
RECURSIVE AndCandidates(_, _, _, _, _, _)
AndCandidates(g, filterTrps, j, andCandidates, ords, k) ==
    LET Kept(cand) == InList(andCandidates.list, cand)
        Narrowed(pool) ==
            IF Len(pool) = 0 THEN pool
            ELSE AndCandidates(g, filterTrps, j + 1, Pool(FALSE, pool), ords, k + 1)
        Scanned(found) ==
            Narrowed(IF andCandidates.isNil THEN found ELSE SelectSeq(found, Kept))
    IN  IF j > Len(filterTrps) THEN andCandidates.list
        ELSE Scanned(Subjects(GetAllMatches(g, filterTrps[j].Subject, filterTrps[j].Predicate,
                                            filterTrps[j].Object, ords[k])))

\* the loop that adds a group's pool to the OR-list
RECURSIVE AddCandidatesFrom(_, _, _)
AddCandidatesFrom(candidates, andCandidates, i) ==
    IF i > Len(andCandidates) THEN candidates
    ELSE AddCandidatesFrom(IF InList(candidates, andCandidates[i]) THEN candidates
                           ELSE Append(candidates, andCandidates[i]),
                           andCandidates, i + 1)

AddCandidatesUnchecked(candidates, andCandidates) == candidates \o andCandidates

AddCandidates(candidates, andCandidates) == AddCandidatesFrom(candidates, andCandidates, 1)

\* the groups from the gi-th on, the first of them starting at position k
RECURSIVE FilterCandidates(_, _, _, _, _, _)
FilterCandidates(g, filters, gi, candidates, ords, k) ==
    IF gi > Len(filters) THEN candidates
    ELSE FilterCandidates(
             g, filters, gi + 1,
             AddCandidates(candidates,
                           AndCandidates(g, filters[gi], 1, Pool(TRUE, <<>>), ords, k)),
             ords, k + Len(filters[gi]))

Loaded(indivs, e) == [indivs |-> indivs, err |-> e]

RECURSIVE LoadIndividualsPast(_, _, _, _, _, _)
LoadIndividualsPast(g, candidates, i, indivs, ord, e) ==
    LET Then(r) ==
            IF r.err # Nil THEN LoadIndividualsPast(g, candidates, i + 1, indivs, ord, r.err)
            ELSE LoadIndividualsPast(g, candidates, i + 1, Append(indivs, r.res), ord, e)
    IN  IF i > Len(candidates) THEN Loaded(indivs, e)
        ELSE Then(GetIndividual(g, candidates[i], ord))

LoadIndividualsToTheEnd(g, candidates, i, indivs, ord) ==
    LoadIndividualsPast(g, candidates, i, indivs, ord, Nil)

\* the loop that loads the candidates; it stops at the first that fails
RECURSIVE LoadIndividuals(_, _, _, _, _)
LoadIndividuals(g, candidates, i, indivs, ord) ==
    LET Then(r) ==
            IF r.err # Nil THEN Loaded(indivs, r.err)
            ELSE LoadIndividuals(g, candidates, i + 1, Append(indivs, r.res), ord)
    IN  IF i > Len(candidates) THEN Loaded(indivs, Nil)
        ELSE Then(GetIndividual(g, candidates[i], ord))

\* GetIndividuals(filters): filters is what the caller's filter value shows;
\* a nil and an empty filter both have length 0
GetIndividuals(g, filters, ords) ==
    LoadIndividuals(g,
                    IF Len(filters) = 0 THEN AllIndividuals(g, ords[1])   \* the marked subjects
                    ELSE FilterCandidates(g, filters, 1, <<>>, ords, 1),
                    1, <<>>, ords[1])


(***************************************************************************)
(* The ontology under its callers                                          *)
(***************************************************************************)

IndivI == InGraph(<<"i">>)
IndivJ == FilterTarget
ClassK == InGraph(<<"K">>)
ClassT == InGraph(<<"T">>)

\* a URI of another ontology, and a URI without a fragment separator
ForeignClass == <<"c", "#", "K">>
PlainURI == <<"n">>

\* the resources the callers upsert: two versions of the individual i, the
\* individual j, the class K and two classes that are not of this ontology
Resources ==
    { Individual(IndivI, <<ClassK>>, <<>>, EmptyMap, EmptyMap, EmptyMap, EmptyMap),
      Individual(IndivI, <<ClassK, ClassT>>, <<>>, [p \in {FilterProperty} |-> <<IndivJ>>],
                 EmptyMap, EmptyMap, EmptyMap),
      Individual(IndivJ, <<ClassT>>, <<>>, EmptyMap,
                 [p \in {FilterProperty} |-> <<FilterLiteral>>],
                 [l \in {<<"e">>} |-> <<"l">>], EmptyMap),
      Class(ClassK, <<>>, <<ClassT>>, <<>>, EmptyMap, [l \in {<<"e">>} |-> <<"m">>]),
      Class(ForeignClass, <<>>, <<>>, <<>>, EmptyMap, EmptyMap),
      Class(PlainURI, <<>>, <<>>, <<>>, EmptyMap, EmptyMap) }

\* the URIs the callers delete and look up
ResourceURIs == {GetURI(r) : r \in Resources}

\* a builder applied to the filter another builder returned
NoFilter == Built(<<>>, <<>>, EmptyFilter)
ThenOrWithClass(b, c) == OrWithClass(b.outer, b.inner, b.filter, c)
ThenAndWithClass(b, c) == AndWithClass(b.outer, b.inner, b.filter, c)
ThenOrWithObjectProperty(b, p, o) == OrWithObjectProperty(b.outer, b.inner, b.filter, p, o)
ThenOrWithDataProperty(b, p, l) == OrWithDataProperty(b.outer, b.inner, b.filter, p, l)
Shown(b) == View(b.outer, b.inner, b.filter)

\* the filters the callers query with: none, the builders' filters, and the
\* literal TripleFilter{{}} whose only group is empty
QueryFilters ==
    { Shown(NoFilter),
      Shown(ThenOrWithClass(NoFilter, ClassK)),
      Shown(ThenAndWithClass(ThenAndWithClass(NoFilter, ClassK), ClassT)),
      Shown(ThenOrWithClass(ThenOrWithClass(NoFilter, ClassK), ClassT)),
      Shown(ThenOrWithObjectProperty(NoFilter, FilterProperty, IndivJ)),
      Shown(ThenOrWithDataProperty(NoFilter, FilterProperty, FilterLiteral)),
      Shown(ThenOrWithObjectProperty(NoFilter, RDFSSubClassOf, ClassT)),
      Shown(ThenOrWithClass(ThenOrWithObjectProperty(NoFilter, RDFSSubClassOf, ClassT), ClassK)),
      <<<<>>>> }

\* the number of store scans the groups of a filter can make
RECURSIVE Patterns(_)
Patterns(filters) == IF filters = <<>> THEN 0 ELSE Len(Head(filters)) + Patterns(Tail(filters))

Scans(filters) == IF Patterns(filters) = 0 THEN 1 ELSE Patterns(filters)

CallUpsertResource ==
    /\ last = Idle
    /\ \E resource \in Resources, ord \in IterOrders(graph) :
        \E r \in {UpsertResource(graph, uri, resource, ord)} :
            /\ graph' = r.graph
            /\ last' = Call("UpsertResource", <<resource>>, r.err, <<>>)
            /\ UNCHANGED <<uri, label, comment, outer, inner, held, running>>

CallDeleteResource ==
    /\ last = Idle
    /\ \E resourceURI \in ResourceURIs, ord \in IterOrders(graph) :
        \E r \in {DeleteResource(graph, resourceURI, ord)} :
            /\ graph' = r.graph
            /\ last' = Call("DeleteResource", <<resourceURI>>, r.err, <<>>)
            /\ UNCHANGED <<uri, label, comment, outer, inner, held, running>>

CallGetIndividuals ==
    /\ last = Idle
    /\ \E filters \in QueryFilters :
        \E ords \in [1..Scans(filters) -> IterOrders(graph)] :
            \E r \in {GetIndividuals(graph, filters, ords)} :
                /\ last' = Call("GetIndividuals", <<filters>>, r.err, r.indivs)
                /\ UNCHANGED <<uri, graph, label, comment, outer, inner, held, running>>

NextOnt ==
    \/ CallUpsertResource
    \/ CallDeleteResource
    \/ CallGetIndividuals
    \/ Return

SpecOnt == InitOnt /\ [][NextOnt]_vars


(***************************************************************************)
(* Claims about resources and queries                                      *)
(***************************************************************************)

\* the stored triples with the subject <u>
OwnTriples(g, u) == {t \in TripleSet(g) : t.Subject = NewResourceTerm(u)}

\* C4: a successful UpsertResource(r) with URI u leaves the store equal to the
\* store before without the triples whose subject is <u>, together with the
\* triples of r; triples of other subjects stay.
C4_UpsertTouchesOwnTriplesOnly ==
    (last.op = "UpsertResource" /\ last.err = Nil) =>
        TripleSet(graph) =
            (TripleSet(last.pre) \ OwnTriples(last.pre, GetURI(last.args[1])))
                \cup Range(ToTriples(last.args[1]))

\* u cut at its last "#"; a URI without one has nothing to cut
Truncated(u) == IF LastIndex(u, <<"#">>) < 0 THEN u ELSE SubSeq(u, 1, LastIndex(u, <<"#">>))

\* C5: UpsertResource on a resource whose URI, truncated at its last "#",
\* differs from the base URI returns ErrResourceDoesNotBelongToGraph and leaves
\* the store unchanged, and the getters on that URI then return
\* ErrResourceNotFound.
C5_OutsiderRejected ==
    (last.op = "UpsertResource" /\ Truncated(GetURI(last.args[1])) # uri) =>
        /\ last.err = ErrResourceDoesNotBelongToGraph
        /\ graph = last.pre
        /\ \A ord \in IterOrders(graph) :
            /\ GetClass(graph, GetURI(last.args[1]), ord).err = ErrResourceNotFound
            /\ GetIndividual(graph, GetURI(last.args[1]), ord).err = ErrResourceNotFound

\* the URIs of the stored subjects, and those that carry the individual marker
SubjectURIs(g) == {Value(t.Subject) : t \in TripleSet(g)}

IsIndividual(g, u) ==
    Triple(NewResourceTerm(u), NewResourceTerm(RDFType), NewResourceTerm(OWLNamedIndividual))
        \in TripleSet(g)

StoredIndividuals(g) == {u \in SubjectURIs(g) : IsIndividual(g, u)}

\* every pattern (wildcard, p, o) of the group has (<u>, p, o) in the store
SatisfiesGroup(g, u, group) ==
    \A j \in 1..Len(group) :
        Triple(NewResourceTerm(u), group[j].Predicate, group[j].Object) \in TripleSet(g)

SatisfiesFilter(g, u, filters) == \E i \in 1..Len(filters) : SatisfiesGroup(g, u, filters[i])

\* the same over the groups that have a pattern
SatisfiesPatterns(g, u, filters) ==
    \E i \in 1..Len(filters) : Len(filters[i]) > 0 /\ SatisfiesGroup(g, u, filters[i])

URIsOf(indivs) == {indivs[i].URI : i \in 1..Len(indivs)}

Once(indivs) == \A i, j \in 1..Len(indivs) : indivs[i].URI = indivs[j].URI => i = j

\* C7 as stated: for a non-empty filter GetIndividuals returns exactly the
\* individuals that satisfy some group of the filter, each exactly once.
C7_FilteredExactly ==
    (last.op = "GetIndividuals" /\ Len(last.args[1]) > 0) =>
        /\ Once(last.out)
        /\ URIsOf(last.out) =
               {u \in StoredIndividuals(last.pre) : SatisfiesFilter(last.pre, u, last.args[1])}

\* what GetIndividuals may give when sat are the subjects the filter selects
FilteredAs(g, sat, indivs, e) ==
    /\ Once(indivs)
    /\ IF sat \subseteq StoredIndividuals(g)
       THEN e = Nil /\ URIsOf(indivs) = sat
       ELSE e = ErrResourceNotFound /\ URIsOf(indivs) \subseteq sat \cap StoredIndividuals(g)

\* C7 amended: for a non-empty filter, let S be the stored subjects that
\* satisfy some group holding at least one pattern.  If every subject of S is
\* an individual, GetIndividuals returns no error and exactly the individuals
\* of S, each once; otherwise it returns ErrResourceNotFound with individuals
\* of S only, each at most once.
C7_FilteredIndividuals ==
    (last.op = "GetIndividuals" /\ Len(last.args[1]) > 0) =>
        FilteredAs(last.pre,
                   {u \in SubjectURIs(last.pre) : SatisfiesPatterns(last.pre, u, last.args[1])},
                   last.out, last.err)

\* a query with two groups found two individuals, one of which satisfies both
C7_Witness ==
    /\ last.op = "GetIndividuals"
    /\ Len(last.args[1]) = 2
    /\ last.err = Nil
    /\ Len(last.out) = 2
    /\ \E u \in URIsOf(last.out) :
           /\ SatisfiesGroup(last.pre, u, last.args[1][1])
           /\ SatisfiesGroup(last.pre, u, last.args[1][2])

\* C8: with a nil or empty filter GetIndividuals returns, without error and
\* each once, exactly the subjects that carry the individual marker, each with
\* all the triples the store holds for it.
C8_AllIndividualsListed ==
    (last.op = "GetIndividuals" /\ Len(last.args[1]) = 0) =>
        /\ last.err = Nil
        /\ Once(last.out)
        /\ URIsOf(last.out) = StoredIndividuals(last.pre)
        /\ \A i \in 1..Len(last.out) :
               Range(IndividualToTriples(last.out[i])) = OwnTriples(last.pre, last.out[i].URI)

\* a query without filter on a store that holds a class and two individuals,
\* one of them with a data property
C8_Witness ==
    /\ last.op = "GetIndividuals"
    /\ Len(last.args[1]) = 0
    /\ Len(last.out) = 2
    /\ OwnTriples(last.pre, ClassK) # {}
    /\ \E i \in 1..Len(last.out) : DOMAIN last.out[i].DataProperties # {}


(***************************************************************************)
(* Terms and triples under their callers                                   *)
(***************************************************************************)

MaxLen == 2   \* longest string handed to a term constructor

\* the characters of the strings: a letter and the delimiters of the encoding
Chars == {"a", "@", "^", "\"", "<"}

Strings == UNION {[1..n -> Chars] : n \in 0..MaxLen}

\* language tags and datatype URIs, the empty string for none
LanguageTags == {<<>>, <<"e">>}
DatatypeURIs == {<<>>, <<"d">>}

\* what the caller reads off a term
Decoded(t) ==
    [term |-> t, value |-> Value(t), language |-> Language(t), datatype |-> Datatype(t),
     isResource |-> IsResource(t), isLiteral |-> IsLiteral(t)]

\* the terms handed to NewTriple: well-formed ones and malformed ones
TermStrings ==
    { NewResourceTerm(<<"a">>),
      NewLiteralTerm(<<"a">>, <<>>, <<>>),
      NewLiteralTerm(<<"a">>, <<"e">>, <<>>),
      NewLiteralTerm(<<"a">>, <<>>, <<"d">>),
      <<>>, <<"a">>, <<"<", ">">>, <<"<", "a">>, <<"\"", "\"">> }

CallNewResourceTerm ==
    /\ last = Idle
    /\ \E u \in Strings :
           last' = Call("NewResourceTerm", <<u>>, Nil, Decoded(NewResourceTerm(u)))
    /\ UNCHANGED <<uri, graph, label, comment, outer, inner, held, running>>

CallNewLiteralTerm ==
    /\ last = Idle
    /\ \E v \in Strings, language \in LanguageTags, datatype \in DatatypeURIs :
           last' = Call("NewLiteralTerm", <<v, language, datatype>>, Nil,
                        Decoded(NewLiteralTerm(v, language, datatype)))
    /\ UNCHANGED <<uri, graph, label, comment, outer, inner, held, running>>

CallNewTriple ==
    /\ last = Idle
    /\ \E subj \in TermStrings, pred \in TermStrings, obj \in TermStrings :
           \E r \in {NewTriple(subj, pred, obj)} :
               last' = Call("NewTriple", <<subj, pred, obj>>, r.err, r.trp)
    /\ UNCHANGED <<uri, graph, label, comment, outer, inner, held, running>>

NextTerm ==
    \/ CallNewResourceTerm
    \/ CallNewLiteralTerm
    \/ CallNewTriple
    \/ Return

SpecTerm == Init /\ [][NextTerm]_vars

\* the term decodes to the URI u and is a resource, not a literal
ResourceOf(d, u) == d.value = u /\ d.isResource /\ ~d.isLiteral

\* C15 as stated: for every URI string u, NewResourceTerm(u) decodes back to u
\* and classifies as a resource and not as a literal.
C15_ResourceRoundTrip ==
    last.op = "NewResourceTerm" => ResourceOf(last.out, last.args[1])

\* C15 amended: for every non-empty string u, NewResourceTerm(u) decodes back
\* to u and classifies as a resource and not as a literal; NewResourceTerm("")
\* is "<>", which decodes to "" and is neither a resource nor a literal.
C15_NonEmptyResourceRoundTrip ==
    last.op = "NewResourceTerm" =>
        IF last.args[1] # <<>> THEN ResourceOf(last.out, last.args[1])
        ELSE last.out.value = <<>> /\ ~last.out.isResource /\ ~last.out.isLiteral

\* a URI that holds a quote and an at sign was encoded and decoded
C15_Witness ==
    /\ last.op = "NewResourceTerm"
    /\ last.args[1] = <<"\"", "@">>
    /\ last.out.term = <<"<", "\"", "@", ">">>

\* C16: NewLiteralTerm(v, "", "") decodes to value v, no language and no
\* datatype; NewLiteralTerm(v, lang, "") decodes to value v and language lang;
\* NewLiteralTerm(v, "", dt) decodes to value v and datatype dt.
C16_LiteralRoundTrip ==
    (last.op = "NewLiteralTerm" /\ (last.args[2] = <<>> \/ last.args[3] = <<>>)) =>
        /\ last.out.value = last.args[1]
        /\ last.out.language = last.args[2]
        /\ last.out.datatype = last.args[3]

\* C17: NewTriple returns an error and no triple when the subject or the
\* predicate is not a resource or the object is neither a resource nor a
\* literal, and otherwise the triple of exactly the three terms.
C17_NewTripleValidates ==
    last.op = "NewTriple" =>
        IF /\ IsResource(last.args[1])
           /\ IsResource(last.args[2])
           /\ IsResource(last.args[3]) \/ IsLiteral(last.args[3])
        THEN last.err = Nil /\ last.out = Triple(last.args[1], last.args[2], last.args[3])
        ELSE last.err # Nil /\ last.out = <<>>

\* a triple with a literal object was made
C17_Witness ==
    /\ last.op = "NewTriple"
    /\ last.err = Nil
    /\ IsLiteral(last.out.Object)
    /\ Language(last.out.Object) = <<"e">>


(***************************************************************************)
(* MemoryStore: the life cycle of a store                                  *)
(***************************************************************************)

\* the graph pointer of a dropped store: nil, which is no graph at all; it is
\* told apart from every graph by an entry that toTerm never stores
NilGraph == SetToBag({[Subject |-> NilTerm, Predicate |-> NilTerm, Object |-> NilTerm]})

\* a method that reads store.graph dereferences nil on a dropped store
OnGraph(g, r) == IF g = NilGraph THEN Result(g, Panic) ELSE r

DropKeepURI(g, u) == [graph |-> NilGraph, uri |-> u, err |-> Nil]

\* memory_store.go Drop
Drop(g, u) == [graph |-> NilGraph, uri |-> <<>>, err |-> Nil]

\* memory_store.go GetURI
StoreURI(u) == u

\* the triples a store holds: those of its graph, none without a graph
Holds(g) == IF g = NilGraph THEN {} ELSE TripleSet(g)

CallDrop ==
    /\ last = Idle
    /\ \E r \in {Drop(graph, uri)} :
           /\ graph' = r.graph
           /\ uri' = r.uri
           /\ last' = Call("Drop", <<>>, r.err, <<>>)
    /\ UNCHANGED <<label, comment, outer, inner, held, running>>

CallGetURI ==
    /\ last = Idle
    /\ last' = Call("GetURI", <<>>, Nil, StoreURI(uri))
    /\ UNCHANGED <<uri, graph, label, comment, outer, inner, held, running>>

CallSize ==
    /\ last = Idle
    /\ \E r \in {OnGraph(graph, Result(graph, Nil))} :
           last' = Call("Size", <<>>, r.err, IF r.err = Nil THEN Size(graph) ELSE 0)
    /\ UNCHANGED <<uri, graph, label, comment, outer, inner, held, running>>

\* AddTriples and DeleteTriples on a store that may have been dropped
CallAddTriplesOnGraph ==
    \E L \in TripleLists :
        StoreCall("AddTriples", L, OnGraph(graph, AddTriples(graph, L)))

CallDeleteTriplesOnGraph ==
    \E L \in TripleLists :
        StoreCall("DeleteTriples", L, OnGraph(graph, DeleteTriples(graph, L)))

NextDrop ==
    \/ CallAddTriplesOnGraph
    \/ CallDeleteTriplesOnGraph
    \/ CallDrop
    \/ CallGetURI
    \/ CallSize
    \/ Return

SpecDrop == Init /\ [][NextDrop]_vars

GetAllMatchesOutcome(g, subj, pred, obj, ord) ==
    IF subj = <<>> /\ pred = <<>> /\ obj = <<>>
    THEN [triples |-> GetAllMatches(g, subj, pred, obj, ord), err |-> Nil]
    ELSE IF Panics(RdfTriple(Triple(subj, pred, obj)))
         THEN [triples |-> <<>>, err |-> Panic]
    ELSE [triples |-> GetAllMatches(g, subj, pred, obj, ord), err |-> Nil]

\* the triples the callers store: those of TestTriples and one whose object is
\* the plain literal of the text @
MatchTriples ==
    TestTriples \cup
    { NewTriple(NewResourceTerm(InGraph(<<"a">>)), NewResourceTerm(InGraph(<<"r">>)),
                NewLiteralTerm(<<"@">>, <<>>, <<>>)).trp }

\* a Triple value built field by field, its subject being no term at all
MalformedTriple ==
    Triple(<<"x">>, NewResourceTerm(InGraph(<<"r">>)), NewResourceTerm(InGraph(<<"a">>)))

\* patterns: the full wildcard, one fixed field, a subject the store never
\* holds, and a subject that is no term at all
MatchPatterns ==
    { <<<<>>, <<>>, <<>>>>,
      <<NewResourceTerm(InGraph(<<"a">>)), <<>>, <<>>>>,
      <<<<>>, NewResourceTerm(InGraph(<<"r">>)), <<>>>>,
      <<<<>>, <<>>, NewLiteralTerm(<<"v">>, <<>>, <<>>)>>,
      <<NewResourceTerm(InGraph(<<"c">>)), <<>>, <<>>>>,
      <<<<"x">>, <<>>, <<>>>> }

CallAddMatchTriple ==
    \E t \in MatchTriples \cup {MalformedTriple} :
        StoreCall("AddTripleUnchecked", <<t>>, AddTripleUnchecked(graph, t))

CallGetAllMatches ==
    /\ last = Idle
    /\ \E pat \in MatchPatterns, ord \in IterOrders(graph) :
           \E r \in {GetAllMatchesOutcome(graph, pat[1], pat[2], pat[3], ord)} :
               last' = Call("GetAllMatches", pat, r.err, r.triples)
    /\ UNCHANGED <<uri, graph, label, comment, outer, inner, held, running>>

CallDeleteAllMatches ==
    \E pat \in MatchPatterns, ord \in IterOrders(graph) :
        StoreCall("DeleteAllMatches", pat, DeleteAllMatches(graph, pat[1], pat[2], pat[3], ord))

NextMatch ==
    \/ CallAddMatchTriple
    \/ CallGetAllMatches
    \/ CallDeleteAllMatches
    \/ Return

SpecMatch == Init /\ [][NextMatch]_vars

\* a non-empty string that is neither a resource term nor a literal term
Malformed(term) == term # <<>> /\ ~IsResource(term) /\ ~IsLiteral(term)

\* the terms handed to the last call
GivenTerms ==
    IF last.op = "AddTripleUnchecked"
    THEN {last.args[1].Subject, last.args[1].Predicate, last.args[1].Object}
    ELSE IF last.op \in {"GetAllMatches", "DeleteAllMatches"} THEN Range(last.args)
    ELSE {}

\* C18: a query or mutation given a malformed term returns an error value to
\* its caller and leaves the store unchanged; it does not abort the program.
C18_MalformedRejected ==
    (\E term \in GivenTerms : Malformed(term)) =>
        /\ last.err \notin {Nil, Panic}
        /\ graph = last.pre

\* the stored triple is shown as a triple that the pattern describes
MatchesShown(t, pat) ==
    /\ pat[1] = <<>> \/ StoredTriple(t).Subject = pat[1]
    /\ pat[2] = <<>> \/ StoredTriple(t).Predicate = pat[2]
    /\ pat[3] = <<>> \/ StoredTriple(t).Object = pat[3]

\* C20: DeleteAllMatches removes exactly the triples that match the pattern
\* and leaves the others in place; with zero matches it returns no error and
\* the store is unchanged.
C20_DeletesExactlyMatches ==
    (last.op = "DeleteAllMatches" /\ \A term \in GivenTerms : ~Malformed(term)) =>
        /\ last.err = Nil
        /\ \A t \in BagToSet(last.pre) :
               CopiesIn(t, graph) = IF MatchesShown(t, last.args) THEN 0 ELSE CopiesIn(t, last.pre)
        /\ BagToSet(graph) \subseteq BagToSet(last.pre)


(***************************************************************************)
(* OntologyGraph: the two constructors                                     *)
(***************************************************************************)

\* the URIs handed to NewMemoryStore, which takes any string
StoreURIs == {BaseURI, <<>>}

\* memory_store.go NewMemoryStore(u) for some u: an empty graph under that URI
InitAnyStore ==
    /\ uri \in StoreURIs
    /\ graph = EmptyBag
    /\ label = EmptyMap
    /\ comment = EmptyMap
    /\ outer = <<>>
    /\ inner = <<>>
    /\ held = NoFilters
    /\ last = Idle
    /\ running = NoCall

\* triples other callers of the same store write and remove: the marker, two
\* labels and a comment of the ontology
OntologyTriples(u) ==
    { MarkerTriple(u),
      OntologyTriple(u, RDFSLabel, NewLiteralTerm(<<"t">>, <<>>, <<>>)),
      OntologyTriple(u, RDFSLabel, NewLiteralTerm(<<"t">>, <<"e">>, <<>>)),
      OntologyTriple(u, RDFSComment, NewLiteralTerm(<<"t">>, <<>>, <<>>)) }

CallInitOntologyGraph ==
    /\ last = Idle
    /\ \E ont \in {InitOntologyGraph(graph, uri)} :
           /\ graph' = ont.graph
           /\ label' = IF ont.err = Nil THEN ont.label ELSE label
           /\ comment' = IF ont.err = Nil THEN ont.comment ELSE comment
           /\ last' = Call("InitOntologyGraph", <<>>, ont.err, <<>>)
    /\ UNCHANGED <<uri, outer, inner, held, running>>

CallLoadOntologyGraph ==
    /\ last = Idle
    /\ \E ord \in IterOrders(graph) :
           \E ont \in {LoadOntologyGraph(graph, uri, ord)} :
               /\ label' = IF ont.err = Nil THEN ont.label ELSE label
               /\ comment' = IF ont.err = Nil THEN ont.comment ELSE comment
               /\ last' = Call("LoadOntologyGraph", <<>>, ont.err, <<>>)
    /\ UNCHANGED <<uri, graph, outer, inner, held, running>>

CallAddOntologyTriple ==
    \E t \in OntologyTriples(uri) :
        StoreCall("AddTripleUnchecked", <<t>>, AddTripleUnchecked(graph, t))

CallDeleteOntologyTriple ==
    \E t \in OntologyTriples(uri) :
        StoreCall("DeleteTripleUnchecked", <<t>>, DeleteTripleUnchecked(graph, t))

NextConstruct ==
    \/ CallInitOntologyGraph
    \/ CallLoadOntologyGraph
    \/ CallAddOntologyTriple
    \/ CallDeleteOntologyTriple
    \/ Return

SpecConstruct == InitAnyStore /\ [][NextConstruct]_vars

\* the store g with URI u holds the marker triple
HasMarker(g, u) == MarkerTriple(u) \in TripleSet(g)

\* C13: InitOntologyGraph succeeds iff the marker is absent and then adds
\* exactly the marker, otherwise it returns ErrOntologyAlreadyExists and leaves
\* the store unchanged; LoadOntologyGraph succeeds iff the marker is present,
\* otherwise it returns ErrOntologyNotFound; so exactly one of them succeeds in
\* every store state, and after a successful Init the marker is present.
C13_ExactlyOneConstructor ==
    /\ last.op = "InitOntologyGraph" =>
           IF HasMarker(last.pre, uri)
           THEN last.err = ErrOntologyAlreadyExists /\ graph = last.pre
           ELSE /\ last.err = Nil
                /\ graph = last.pre (+) SetToBag({RdfTriple(MarkerTriple(uri))})
                /\ HasMarker(graph, uri)
    /\ last.op = "LoadOntologyGraph" =>
           /\ graph = last.pre
           /\ IF HasMarker(last.pre, uri) THEN last.err = Nil
              ELSE last.err = ErrOntologyNotFound


(***************************************************************************)
(* OntologyGraph: the version of the ontology                              *)
(***************************************************************************)

\* memory_store.go GetFirstMatch: nil (the empty set) or the triple that
\* graph.One meets first, which is any of the matching ones
GetFirstMatch(g, subj, pred, obj) ==
    LET First(pat) ==
            IF Panics(pat) THEN [triples |-> {}, err |-> Panic]
            ELSE [triples |-> {StoredTriple(t) : t \in One(g, pat.Subject, pat.Predicate, pat.Object)},
                  err |-> Nil]
    IN  First(RdfTriple(Triple(subj, pred, obj)))

\* GetVersion on the store g with URI u: the results it may return
GetVersion(g, u) ==
    LET Read(m) ==
            IF m.err # Nil THEN {[version |-> <<>>, err |-> m.err]}
            ELSE IF m.triples = {} THEN {[version |-> <<>>, err |-> Nil]}
            ELSE {[version |-> Value(trp.Object), err |-> Nil] : trp \in m.triples}
    IN  Read(GetFirstMatch(g, NewResourceTerm(u), NewResourceTerm(OWLVersionInfo), <<>>))

\* SetVersion on the store g with URI u, iterated in order ord
SetVersion(g, u, version, ord) ==
    LET Deleted(d) ==
            IF d.err # Nil THEN d
            ELSE AddTripleUnchecked(
                     d.graph, OntologyTriple(u, OWLVersionInfo, NewLiteralTerm(version, <<>>, <<>>)))
    IN  Deleted(DeleteAllMatches(g, NewResourceTerm(u), NewResourceTerm(OWLVersionInfo),
                                 <<>>, ord))

\* the version strings of the callers
Versions ==
    { <<>>, <<"1">>, <<"2">>, <<"0", ".", "1">>, <<"@">>, <<"@", "1">> }

CallSetVersion ==
    /\ last = Idle
    /\ \E version \in Versions, ord \in IterOrders(graph) :
           \E r \in {SetVersion(graph, uri, version, ord)} :
               /\ graph' = r.graph
               /\ last' = Call("SetVersion", <<version>>, r.err, <<>>)
    /\ UNCHANGED <<uri, label, comment, outer, inner, held, running>>

CallGetVersion ==
    /\ last = Idle
    /\ \E r \in GetVersion(graph, uri) :
           last' = Call("GetVersion", <<>>, r.err, r.version)
    /\ UNCHANGED <<uri, graph, label, comment, outer, inner, held, running>>

NextVersion ==
    \/ CallSetVersion
    \/ CallGetVersion
    \/ Return

SpecVersion == InitOnt /\ [][NextVersion]_vars

\* the versionInfo triples the store g holds on the URI u, with their copies
VersionCount(g, u) ==
    BagCardinality(
        [t \in {x \in BagToSet(g) : /\ x.Subject = toTerm(NewResourceTerm(u))
                                     /\ x.Predicate = toTerm(NewResourceTerm(OWLVersionInfo))}
           |-> CopiesIn(t, g)])

\* C14: after a successful SetVersion(v), whatever SetVersion calls came
\* before, the store holds exactly one versionInfo triple on the base URI and
\* GetVersion returns v; while the store holds no version, GetVersion returns
\* the empty string without error.
C14_OneVersion ==
    /\ (last.op = "SetVersion" /\ last.err = Nil) =>
           /\ VersionCount(graph, uri) = 1
           /\ GetVersion(graph, uri) = {[version |-> last.args[1], err |-> Nil]}
    /\ (last.op = "GetVersion" /\ VersionCount(graph, uri) = 0) =>
           last.err = Nil /\ last.out = <<>>


(***************************************************************************)
(* OntologyGraph: resources written, read back and deleted                 *)
(***************************************************************************)

\* two more versions of the class K: labelled "t" and labelled "@", each
\* without a language
LabelledResources ==
    { Class(ClassK, <<>>, <<>>, <<>>, [l \in {<<>>} |-> <<"t">>], EmptyMap),
      Class(ClassK, <<>>, <<>>, <<>>, [l \in {<<>>} |-> <<"@">>], EmptyMap) }

CallUpsertLabelled ==
    /\ last = Idle
    /\ \E resource \in LabelledResources, ord \in IterOrders(graph) :
        \E r \in {UpsertResource(graph, uri, resource, ord)} :
            /\ graph' = r.graph
            /\ last' = Call("UpsertResource", <<resource>>, r.err, <<>>)
            /\ UNCHANGED <<uri, label, comment, outer, inner, held, running>>

CallGetClass ==
    /\ last = Idle
    /\ \E classURI \in ResourceURIs, ord \in IterOrders(graph) :
        \E r \in {GetClass(graph, classURI, ord)} :
            last' = Call("GetClass", <<classURI>>, r.err, r.res)
    /\ UNCHANGED <<uri, graph, label, comment, outer, inner, held, running>>

CallGetIndividual ==
    /\ last = Idle
    /\ \E indivURI \in ResourceURIs, ord \in IterOrders(graph) :
        \E r \in {GetIndividual(graph, indivURI, ord)} :
            last' = Call("GetIndividual", <<indivURI>>, r.err, r.res)
    /\ UNCHANGED <<uri, graph, label, comment, outer, inner, held, running>>

NextRound ==
    \/ CallUpsertResource
    \/ CallUpsertLabelled
    \/ CallDeleteResource
    \/ CallGetClass
    \/ CallGetIndividual
    \/ Return

SpecRound == InitOnt /\ [][NextRound]_vars

\* two maps from a property to a list assert the same values
SameAssertions(m, n) ==
    /\ DOMAIN m = DOMAIN n
    /\ \A k \in DOMAIN m : Range(m[k]) = Range(n[k])

\* the entity read is the entity written: lists compared as sets
SameEntity(a, b) ==
    /\ a.kind = b.kind
    /\ a.URI = b.URI
    /\ a.Label = b.Label
    /\ a.Comment = b.Comment
    /\ IF a.kind = "Class"
       THEN /\ Range(a.EquivalentTo) = Range(b.EquivalentTo)
            /\ Range(a.SubClassOf) = Range(b.SubClassOf)
            /\ Range(a.DisjointWith) = Range(b.DisjointWith)
       ELSE /\ Range(a.Types) = Range(b.Types)
            /\ Range(a.SameIndividualAs) = Range(b.SameIndividualAs)
            /\ SameAssertions(a.ObjectProperties, b.ObjectProperties)
            /\ SameAssertions(a.DataProperties, b.DataProperties)

\* the matching getter of a resource, on the store g
Getter(g, resource, ord) ==
    IF resource.kind = "Class" THEN GetClass(g, GetURI(resource), ord)
    ELSE GetIndividual(g, GetURI(resource), ord)

\* C11: after UpsertResource(r) succeeds, the matching getter returns, without
\* error, an entity with the same URI, the same relation lists as sets, the
\* same property assertions and equal label and comment maps.
C11_UpsertGetRoundTrip ==
    (last.op = "UpsertResource" /\ last.err = Nil) =>
        \A ord \in IterOrders(graph) :
            \E got \in {Getter(graph, last.args[1], ord)} :
                got.err = Nil /\ SameEntity(last.args[1], got.res)

\* C12: after DeleteResource(u) returns without error the store holds no
\* triple with <u> as subject or as object, and every other triple is unchanged.
C12_DeleteResourceFrame ==
    (last.op = "DeleteResource" /\ last.err = Nil) =>
        \E term \in {toTerm(NewResourceTerm(last.args[1]))} :
            /\ \A t \in BagToSet(graph) : t.Subject # term /\ t.Object # term
            /\ \A t \in BagToSet(last.pre) :
                   (t.Subject # term /\ t.Object # term) =>
                       CopiesIn(t, graph) = CopiesIn(t, last.pre)
            /\ BagToSet(graph) \subseteq BagToSet(last.pre)


(***************************************************************************)
(* MemoryStore: the read operations                                        *)
(***************************************************************************)

\* memory_store.go GetAllTriples
GetAllTriples(g, ord) == GetAllMatchesOutcome(g, <<>>, <<>>, <<>>, ord)

\* the patterns of the readers: those of MatchPatterns and the object that is
\* the plain literal of the text @
ReadPatterns ==
    MatchPatterns \cup {<<<<>>, <<>>, NewLiteralTerm(<<"@">>, <<>>, <<>>)>>}

CallReadAllMatches ==
    /\ last = Idle
    /\ \E pat \in ReadPatterns, ord \in IterOrders(graph) :
           \E r \in {GetAllMatchesOutcome(graph, pat[1], pat[2], pat[3], ord)} :
               last' = Call("GetAllMatches", pat, r.err, r.triples)
    /\ UNCHANGED <<uri, graph, label, comment, outer, inner, held, running>>

CallGetAllTriples ==
    /\ last = Idle
    /\ \E ord \in IterOrders(graph) :
           \E r \in {GetAllTriples(graph, ord)} :
               last' = Call("GetAllTriples", <<>>, r.err, r.triples)
    /\ UNCHANGED <<uri, graph, label, comment, outer, inner, held, running>>

\* the result of GetFirstMatch is a list of one triple, or the empty list for nil
CallGetFirstMatch ==
    /\ last = Idle
    /\ \E pat \in ReadPatterns :
           \E r \in {GetFirstMatch(graph, pat[1], pat[2], pat[3])} :
               \E trps \in (IF r.triples = {} THEN {<<>>} ELSE {<<trp>> : trp \in r.triples}) :
                   last' = Call("GetFirstMatch", pat, r.err, trps)
    /\ UNCHANGED <<uri, graph, label, comment, outer, inner, held, running>>

NextRead ==
    \/ CallAddMatchTriple
    \/ CallReadAllMatches
    \/ CallGetAllTriples
    \/ CallGetFirstMatch
    \/ CallDeleteAllMatches
    \/ Return

SpecRead == Init /\ [][NextRead]_vars

\* the reference matcher: the triples of the store g, as GetAllTriples shows
\* them, that equal the pattern on every non-empty field
Matching(g, pat) == {StoredTriple(t) : t \in {x \in BagToSet(g) : MatchesShown(x, pat)}}

\* C21: for a well-formed pattern GetAllMatches returns exactly the stored
\* triples that equal the pattern on every non-empty field, GetAllTriples
\* returns the set GetAllMatches("", "", "") returns, and GetFirstMatch returns
\* one of the matching triples, or none without error when there is none.
C21_ReadsAgree ==
    /\ (last.op = "GetAllMatches" /\ \A term \in GivenTerms : ~Malformed(term)) =>
           last.err = Nil /\ Range(last.out) = Matching(graph, last.args)
    /\ last.op = "GetAllTriples" =>
           /\ last.err = Nil
           /\ \A ord \in IterOrders(graph) :
                  Range(last.out) = Range(GetAllMatchesOutcome(graph, <<>>, <<>>, <<>>, ord).triples)
    /\ (last.op = "GetFirstMatch" /\ \A term \in Range(last.args) : ~Malformed(term)) =>
           /\ last.err = Nil
           /\ Range(last.out) \subseteq Matching(graph, last.args)
           /\ last.out = <<>> <=> Matching(graph, last.args) = {}


(***************************************************************************)
(* MemoryStore: Turtle written and read back                               *)
(***************************************************************************)

\* strings.Replace(s, old, new, -1)
RECURSIVE ReplaceAll(_, _, _)
ReplaceAll(s, old, new) ==
    IF Len(s) < Len(old) THEN s
    ELSE IF SubSeq(s, 1, Len(old)) = old
         THEN new \o ReplaceAll(SubSeq(s, Len(old) + 1, Len(s)), old, new)
    ELSE <<Head(s)>> \o ReplaceAll(Tail(s), old, new)

SetMin(S) == CHOOSE x \in S : \A y \in S : x <= y

\* regexp `\<prefix(.+?)\>` replaced by `abbr:$1` throughout s; the prefixes of
\* this model hold no character that is special in a regular expression
RECURSIVE ApplyPrefix(_, _, _)
ApplyPrefix(s, abbr, prefix) ==
    LET n == Len(prefix) + 1
        Closers == {j \in (n + 2)..Len(s) :
                        s[j] = ">" /\ \A k \in (n + 1)..(j - 1) : s[k] # "\n"}
        Rewritten(j) ==
            abbr \o <<":">> \o SubSeq(s, n + 1, j - 1)
                 \o ApplyPrefix(SubSeq(s, j + 1, Len(s)), abbr, prefix)
    IN  IF Len(s) < n + 2 THEN s
        ELSE IF SubSeq(s, 1, n) = <<"<">> \o prefix /\ Closers # {}
             THEN Rewritten(SetMin(Closers))
        ELSE <<Head(s)>> \o ApplyPrefix(Tail(s), abbr, prefix)

\* rdf2go's Turtle serializer writes each triple as the texts of its three
\* terms, the triples of a subject after each other; the white space, the
\* semicolons and the closing " ." between the terms are not kept here
Serialize(g, ord) ==
    [i \in 1..Len(IterTriples(g, ord)) |-> StoredTriple(IterTriples(g, ord)[i])]

\* the prefix map of SerializeToTurtle before the imports are added
BasePrefixMap(u) ==
    [abbr \in {<<>>, <<"r", "d", "f">>, <<"r", "d", "f", "s">>, <<"o", "w", "l">>,
               <<"x", "s", "d">>} |->
        IF abbr = <<>> THEN u \o <<"#">>
        ELSE IF abbr = <<"r", "d", "f">> THEN <<"r", "#">>
        ELSE IF abbr = <<"r", "d", "f", "s">> THEN <<"s", "#">>
        ELSE IF abbr = <<"o", "w", "l">> THEN <<"o", "#">>
        ELSE <<"x", "#">>]

\* the loop that adds one prefix per import
RECURSIVE AddImportPrefixes(_, _, _)
AddImportPrefixes(trps, i, prefixMap) ==
    LET With(importURI) ==
            MapPut(prefixMap,
                   SubSeq(importURI, LastIndex(importURI, <<"/">>) + 2, Len(importURI)),
                   importURI \o <<"#">>)
    IN  IF i > Len(trps) THEN prefixMap
        ELSE AddImportPrefixes(trps, i + 1, With(Value(trps[i].Object)))

\* the loop over the prefix map, in the order the run-time ranges over it
RECURSIVE ApplyPrefixes(_, _, _, _)
ApplyPrefixes(s, prefixMap, order, i) ==
    IF i > Len(order) THEN s
    ELSE ApplyPrefixes(ApplyPrefix(s, order[i], prefixMap[order[i]]), prefixMap, order, i + 1)

\* what the pretty printer does to the text of one term: the prefixes, then
\* the line breaks after every " ."
PrettyText(s, prefixMap, order) ==
    ReplaceAll(ApplyPrefixes(s, prefixMap, order, 1), <<" ", ".">>, <<" ", ".", "\n", "\n">>)

\* a Turtle document: the declared prefixes and the statements
Document(prefixMap, stmts) == [prefixes |-> prefixMap, statements |-> stmts]

\* memory_store.go SerializeToTurtle on the store g with URI u
SerializeToTurtle(g, u, pretty, ord, order) ==
    LET Rewrite(stmts, prefixMap, keys) ==
            Document(prefixMap,
                [i \in 1..Len(stmts) |->
                    [Subject |-> PrettyText(stmts[i].Subject, prefixMap, keys),
                     Predicate |-> PrettyText(stmts[i].Predicate, prefixMap, keys),
                     Object |-> PrettyText(stmts[i].Object, prefixMap, keys)]])
        InMap(prefixMap) == LET Has(a) == a \in DOMAIN prefixMap IN SelectSeq(order, Has)
        Pretty(prefixMap) == Rewrite(Serialize(g, ord), prefixMap, InMap(prefixMap))
    IN  IF ~pretty THEN Document(EmptyMap, Serialize(g, ord))
        ELSE Pretty(AddImportPrefixes(
                        GetAllMatches(g, NewResourceTerm(u), NewResourceTerm(OWLImports), <<>>, ord),
                        1, BasePrefixMap(u)))

\* what a Turtle parser makes of a text that is no term
SyntaxError == RdfTerm("error", <<>>, <<>>, <<>>)

\* the inverse of Escape; a backslash before any other character is an error
RECURSIVE Unescape(_)
Unescape(s) ==
    LET Rest(r) == IF r = PanicString THEN PanicString ELSE <<s[2]>> \o r
        Plain(r) == IF r = PanicString THEN PanicString ELSE <<Head(s)>> \o r
    IN  IF s = <<>> THEN <<>>
        ELSE IF Head(s) = "\\"
             THEN IF Len(s) >= 2 /\ s[2] \in {"\\", "\""}
                  THEN Rest(Unescape(SubSeq(s, 3, Len(s))))
                  ELSE PanicString
        ELSE Plain(Unescape(Tail(s)))

\* the index of the quote that closes the string opened at index 1, 0 for none
ClosingQuote(s) ==
    LET Backslashes(j) == Cardinality({k \in 2..(j - 1) : \A m \in k..(j - 1) : s[m] = "\\"})
        Q == {j \in 2..Len(s) : s[j] = "\"" /\ Backslashes(j) % 2 = 0}
    IN  IF Q = {} THEN 0 ELSE SetMin(Q)

\* a prefixed name and an IRI reference, read as a resource
ParseResource(s, prefixMap) ==
    LET Colons == {j \in 1..Len(s) : s[j] = ":"}
        Named(j) ==
            IF SubSeq(s, 1, j - 1) \in DOMAIN prefixMap
               /\ \A k \in (j + 1)..Len(s) : s[k] \notin {" ", "\n", "<", ">", "\"", "#"}
            THEN RdfTerm("Resource", prefixMap[SubSeq(s, 1, j - 1)] \o SubSeq(s, j + 1, Len(s)),
                         <<>>, <<>>)
            ELSE SyntaxError
    IN  IF Len(s) >= 2 /\ s[1] = "<" /\ s[Len(s)] = ">"
        THEN IF \A k \in 2..(Len(s) - 1) : s[k] \notin {" ", "\n", "<", ">", "\""}
             THEN RdfTerm("Resource", SubSeq(s, 2, Len(s) - 1), <<>>, <<>>)
             ELSE SyntaxError
        ELSE IF Colons = {} THEN SyntaxError
        ELSE Named(SetMin(Colons))

\* one term of a statement as the parser reads it; lenient tells whether the
\* parser accepts a raw line break inside a quoted string
ParseTerm(s, prefixMap, lenient) ==
    LET Tagged(val, rest) ==
            IF val = PanicString THEN SyntaxError
            ELSE IF rest = <<>> THEN RdfTerm("Literal", val, <<>>, <<>>)
            ELSE IF Head(rest) = "@"
                 THEN IF Len(rest) >= 2
                         /\ \A k \in 2..Len(rest) : rest[k] \notin {" ", "\n", "\"", "@", "<", ">"}
                      THEN RdfTerm("Literal", val, Tail(rest), <<>>)
                      ELSE SyntaxError
            ELSE IF Len(rest) > 2 /\ SubSeq(rest, 1, 2) = <<"^", "^">>
                 THEN IF ParseResource(SubSeq(rest, 3, Len(rest)), prefixMap) = SyntaxError
                      THEN SyntaxError
                      ELSE RdfTerm("Literal", val, <<>>,
                                   ParseResource(SubSeq(rest, 3, Len(rest)), prefixMap).value)
            ELSE SyntaxError
        Quoted(j) ==
            IF j = 0 THEN SyntaxError
            ELSE IF ~lenient /\ \E k \in 2..(j - 1) : s[k] = "\n" THEN SyntaxError
            ELSE Tagged(Unescape(SubSeq(s, 2, j - 1)), SubSeq(s, j + 1, Len(s)))
    IN  IF s = <<>> THEN SyntaxError
        ELSE IF Head(s) = "\"" THEN Quoted(ClosingQuote(s))
        ELSE ParseResource(s, prefixMap)

\* the outcome of ParseFromTurtle: the store or the error
Parsed(g, u, e) == [graph |-> g, uri |-> u, err |-> e]

\* memory_store.go ParseFromTurtle: the outcomes it may have on the document
ParseFromTurtle(doc, lenient) ==
    LET Terms(i) ==
            [Subject |-> ParseTerm(doc.statements[i].Subject, doc.prefixes, lenient),
             Predicate |-> ParseTerm(doc.statements[i].Predicate, doc.prefixes, lenient),
             Object |-> ParseTerm(doc.statements[i].Object, doc.prefixes, lenient)]
        Bad(rt) == SyntaxError \in {rt.Subject, rt.Predicate, rt.Object}
        Named(g, found) ==
            {Parsed(g, triple.Subject.value, Nil) : triple \in found}
        Based(g, markers) ==
            IF markers # {} THEN Named(g, markers)
            ELSE IF BagToSet(g) = {}
                 THEN {Parsed(EmptyBag, <<>>, "No triple found in reader data")}
            ELSE Named(g, BagToSet(g))
        Stored(g) ==
            Based(g, One(g, NilTerm, toTerm(NewResourceTerm(RDFType)),
                         toTerm(NewResourceTerm(OWLOntology))))
    IN  IF \E i \in 1..Len(doc.statements) : Bad(Terms(i))
        THEN {Parsed(EmptyBag, <<>>, "parse error")}
        ELSE Stored(SetToBag({Terms(i) : i \in 1..Len(doc.statements)}))

\* the triples the callers store: the marker, an import, a typed subject of
\* the imported ontology and a literal that holds a blank and a full stop
TurtleTriples ==
    { MarkerTriple(BaseURI),
      OntologyTriple(BaseURI, OWLImports, NewResourceTerm(<<"c">>)),
      Triple(NewResourceTerm(InGraph(<<"a">>)), NewResourceTerm(RDFType),
             NewResourceTerm(ForeignClass)),
      Triple(NewResourceTerm(InGraph(<<"a">>)), NewResourceTerm(RDFSComment),
             NewLiteralTerm(<<"x", " ", ".">>, <<>>, <<>>)) }

\* the orders in which the run-time may range over the prefix map
PrefixOrders ==
    Perms({<<>>, <<"r", "d", "f">>, <<"r", "d", "f", "s">>, <<"o", "w", "l">>,
           <<"x", "s", "d">>, <<"c">>})

CallAddTurtleTriple ==
    \E t \in TurtleTriples :
        StoreCall("AddTripleUnchecked", <<t>>, AddTripleUnchecked(graph, t))

CallDeleteTurtleTriple ==
    \E t \in TurtleTriples :
        StoreCall("DeleteTripleUnchecked", <<t>>, DeleteTripleUnchecked(graph, t))

\* SerializeToTurtle into a buffer and ParseFromTurtle of that buffer
CallSerializeAndParse ==
    /\ last = Idle
    /\ \E pretty \in BOOLEAN, lenient \in BOOLEAN, ord \in IterOrders(graph),
          order \in PrefixOrders :
           \E r \in ParseFromTurtle(SerializeToTurtle(graph, uri, pretty, ord, order), lenient) :
               last' = Call("SerializeAndParse", <<pretty>>, r.err, r.graph)
    /\ UNCHANGED <<uri, graph, label, comment, outer, inner, held, running>>

NextTurtle ==
    \/ CallAddTurtleTriple
    \/ CallDeleteTurtleTriple
    \/ CallSerializeAndParse
    \/ Return

SpecTurtle == Init /\ [][NextTurtle]_vars

\* C22: for every store content and both pretty settings, SerializeToTurtle
\* followed by ParseFromTurtle of the output yields, without error, a store
\* whose triple set equals the triple set of the original store.
C22_TurtleRoundTrip ==
    last.op = "SerializeAndParse" =>
        last.err = Nil /\ TripleSet(last.out) = TripleSet(graph)


(***************************************************************************)
(* MemoryStore: the store as a set                                         *)
(***************************************************************************)

NextSet ==
    \/ CallAddTriple
    \/ CallAddTriples
    \/ CallAddTripleUnchecked
    \/ CallAddTriplesUnchecked
    \/ CallAddMatchTriple
    \/ CallDeleteTriple
    \/ CallDeleteTriples
    \/ CallDeleteTripleUnchecked
    \/ CallDeleteTriplesUnchecked
    \/ CallDeleteAllMatches
    \/ CallSize
    \/ CallGetAllTriples
    \/ Return

SpecSet == Init /\ [][NextSet]_vars

\* C23: under every sequence of store operations from the empty store no
\* triple is held twice, and Size() equals the number of distinct triples that
\* GetAllTriples() returns.
C23_StoreIsSet ==
    /\ NoDuplicates(graph)
    /\ last.op = "Size" => last.out = Cardinality(TripleSet(graph))
    /\ last.op = "GetAllTriples" =>
           /\ Len(last.out) = Cardinality(Range(last.out))
           /\ Size(graph) = Cardinality(Range(last.out))

\* an unchecked bulk add of a list that repeats a triple went through on a
\* store that already held one of them
C23_Witness ==
    /\ last.op = "AddTriplesUnchecked"
    /\ last.err = Nil
    /\ \E i, j \in 1..Len(last.args) : i < j /\ last.args[i] = last.args[j]
    /\ \E i \in 1..Len(last.args) : last.args[i] \in TripleSet(last.pre)
    /\ Size(graph) >= 2


(***************************************************************************)
(* TripleFilter: what each builder returns                                 *)
(***************************************************************************)

\* a builder called on the i-th filter the caller holds (0: on TripleFilter{})
\* with the arguments a; the caller keeps the result and notes what the
\* receiver showed before the call and what the result shows
Build(name, i, a, b) ==
    /\ last = Idle
    /\ Len(held) < MaxFilterCalls
    /\ outer' = b.outer
    /\ inner' = b.inner
    /\ held' = Append(held, [filter |-> b.filter, seen |-> View(b.outer, b.inner, b.filter),
                             on |-> i])
    /\ last' = Call(name,
                    <<View(outer, inner, IF i = 0 THEN EmptyFilter ELSE held[i].filter)>> \o a,
                    Nil, View(b.outer, b.inner, b.filter))
    /\ UNCHANGED <<uri, graph, label, comment, running>>

\* the i-th filter value of the caller
Receiver(i) == IF i = 0 THEN EmptyFilter ELSE held[i].filter

BuildOrWithClass ==
    \E i \in 0..Len(held), c \in FilterClasses :
        Build("OrWithClass", i, <<c>>, OrWithClass(outer, inner, Receiver(i), c))

BuildAndWithClass ==
    \E i \in 0..Len(held), c \in FilterClasses :
        Build("AndWithClass", i, <<c>>, AndWithClass(outer, inner, Receiver(i), c))

BuildOrWithObjectProperty ==
    \E i \in 0..Len(held) :
        Build("OrWithObjectProperty", i, <<FilterProperty, FilterTarget>>,
              OrWithObjectProperty(outer, inner, Receiver(i), FilterProperty, FilterTarget))

BuildAndWithObjectProperty ==
    \E i \in 0..Len(held) :
        Build("AndWithObjectProperty", i, <<FilterProperty, FilterTarget>>,
              AndWithObjectProperty(outer, inner, Receiver(i), FilterProperty, FilterTarget))

BuildOrWithDataProperty ==
    \E i \in 0..Len(held) :
        Build("OrWithDataProperty", i, <<FilterProperty, FilterLiteral>>,
              OrWithDataProperty(outer, inner, Receiver(i), FilterProperty, FilterLiteral))

BuildAndWithDataProperty ==
    \E i \in 0..Len(held) :
        Build("AndWithDataProperty", i, <<FilterProperty, FilterLiteral>>,
              AndWithDataProperty(outer, inner, Receiver(i), FilterProperty, FilterLiteral))

\* the caller turns to its next call and keeps its filters
ReturnBuilt ==
    /\ last # Idle
    /\ last' = Idle
    /\ UNCHANGED <<uri, graph, label, comment, outer, inner, held, running>>

NextBuild ==
    \/ BuildOrWithClass
    \/ BuildAndWithClass
    \/ BuildOrWithObjectProperty
    \/ BuildAndWithObjectProperty
    \/ BuildOrWithDataProperty
    \/ BuildAndWithDataProperty
    \/ ReturnBuilt

SpecBuild == Init /\ [][NextBuild]_vars

\* the pattern the claim expects of the last builder call: a wildcard subject,
\* rdf:type or the property as predicate, the class, object or literal as object
ExpectedPattern ==
    IF last.op \in {"OrWithClass", "AndWithClass"}
    THEN [Subject |-> <<>>, Predicate |-> <<"<">> \o RDFType \o <<">">>,
          Object |-> <<"<">> \o last.args[2] \o <<">">>]
    ELSE IF last.op \in {"OrWithObjectProperty", "AndWithObjectProperty"}
    THEN [Subject |-> <<>>, Predicate |-> <<"<">> \o last.args[2] \o <<">">>,
          Object |-> <<"<">> \o last.args[3] \o <<">">>]
    ELSE [Subject |-> <<>>, Predicate |-> <<"<">> \o last.args[2] \o <<">">>,
          Object |-> last.args[3].value]

\* every filter of the caller was built on the one before it
IsChain == \A i \in 1..Len(held) : held[i].on = i - 1

\* C24: an OrWith builder returns the receiver's groups followed by a new
\* group of exactly the new pattern; an AndWith builder returns the receiver's
\* groups with the new pattern appended to the last group, or one group of the
\* new pattern when the receiver has no group; the pattern's subject is the
\* wildcard; and the k-th filter of a chain holds exactly k patterns, those of
\* the filter before it followed by the new one.
C24_BuildersGroup ==
    /\ last.op \in {"OrWithClass", "OrWithObjectProperty", "OrWithDataProperty"} =>
           last.out = Append(last.args[1], <<ExpectedPattern>>)
    /\ last.op \in {"AndWithClass", "AndWithObjectProperty", "AndWithDataProperty"} =>
           last.out = IF last.args[1] = <<>> THEN <<<<ExpectedPattern>>>>
                      ELSE [last.args[1] EXCEPT ![Len(last.args[1])] = Append(@, ExpectedPattern)]
    /\ IsChain =>
           \A k \in 1..Len(held) :
               /\ Patterns(held[k].seen) = k
               /\ \A t \in Range(Flatten(held[k].seen)) : t.Subject = <<>>
               /\ k > 1 => SubSeq(Flatten(held[k].seen), 1, k - 1) = Flatten(held[k - 1].seen)

\* a chain of three calls has ended with an AndWith builder that extended the
\* second group
C24_Witness ==
    /\ IsChain
    /\ Len(held) = 3
    /\ last.op = "AndWithDataProperty"
    /\ Len(last.out) = 2
    /\ Len(last.out[2]) = 2


(***************************************************************************)
(* OntologyGraph: the getters and the type markers                         *)
(***************************************************************************)

OWLInverseOf == <<"o", "#", "n">>
OWLObjectProperty == <<"o", "#", "P">>
OWLFunctionalProperty == <<"o", "#", "F">>
OWLInverseFunctionalProperty == <<"o", "#", "I">>
OWLSymmetricProperty == <<"o", "#", "S">>
OWLAsymmetricProperty == <<"o", "#", "A">>
OWLTransitiveProperty == <<"o", "#", "T">>
OWLReflexiveProperty == <<"o", "#", "R">>
OWLIrreflexiveProperty == <<"o", "#", "X">>
OWLPropertyDisjointWith == <<"o", "#", "w">>
OWLEquivalentProperty == <<"o", "#", "q">>
OWLDatatypeProperty == <<"o", "#", "D">>
RDFSSubPropertyOf == <<"s", "#", "p">>
RDFSDomain == <<"s", "#", "m">>
RDFSRange == <<"s", "#", "g">>
RDFSDatatype == <<"s", "#", "D">>

ZeroObjectProperty ==
    [kind |-> "ObjectProperty", URI |-> <<>>, EquivalentTo |-> <<>>, SubPropertyOf |-> <<>>,
     InverseOf |-> <<>>, Domains |-> <<>>, Ranges |-> <<>>, DisjointWith |-> <<>>,
     IsFunctional |-> FALSE, IsInverseFunctional |-> FALSE, IsTransitive |-> FALSE,
     IsSymmetric |-> FALSE, IsAsymmetric |-> FALSE, IsReflexive |-> FALSE,
     IsIrreflexive |-> FALSE, Label |-> EmptyMap, Comment |-> EmptyMap]

ZeroDataProperty ==
    [kind |-> "DataProperty", URI |-> <<>>, EquivalentTo |-> <<>>, SubPropertyOf |-> <<>>,
     Domains |-> <<>>, Ranges |-> <<>>, DisjointWith |-> <<>>, IsFunctional |-> FALSE,
     Label |-> EmptyMap, Comment |-> EmptyMap]

ZeroDatatype == [kind |-> "Datatype", URI |-> <<>>, Label |-> EmptyMap, Comment |-> EmptyMap]

\* trp.Predicate == NewResourceTerm(RDFType) && trp.Object == NewResourceTerm(class)
IsTyped(trp, class) ==
    trp.Predicate = NewResourceTerm(RDFType) /\ trp.Object = NewResourceTerm(class)

\* the loop of GetObjectProperty over the triples of the subject
RECURSIVE ParseObjectProperty(_, _, _, _)
ParseObjectProperty(trps, i, prop, propURI) ==
    LET Step(trp) ==
            IF IsTyped(trp, OWLObjectProperty) THEN [prop EXCEPT !.URI = propURI]
            ELSE IF trp.Predicate = NewResourceTerm(OWLEquivalentProperty)
            THEN [prop EXCEPT !.EquivalentTo = Append(@, Value(trp.Object))]
            ELSE IF trp.Predicate = NewResourceTerm(RDFSSubPropertyOf)
            THEN [prop EXCEPT !.SubPropertyOf = Append(@, Value(trp.Object))]
            ELSE IF trp.Predicate = NewResourceTerm(OWLInverseOf)
            THEN [prop EXCEPT !.InverseOf = Append(@, Value(trp.Object))]
            ELSE IF trp.Predicate = NewResourceTerm(RDFSDomain)
            THEN [prop EXCEPT !.Domains = Append(@, Value(trp.Object))]
            ELSE IF trp.Predicate = NewResourceTerm(RDFSRange)
            THEN [prop EXCEPT !.Ranges = Append(@, Value(trp.Object))]
            ELSE IF trp.Predicate = NewResourceTerm(OWLPropertyDisjointWith)
            THEN [prop EXCEPT !.DisjointWith = Append(@, Value(trp.Object))]
            ELSE IF IsTyped(trp, OWLFunctionalProperty) THEN [prop EXCEPT !.IsFunctional = TRUE]
            ELSE IF IsTyped(trp, OWLInverseFunctionalProperty)
            THEN [prop EXCEPT !.IsInverseFunctional = TRUE]
            ELSE IF IsTyped(trp, OWLTransitiveProperty) THEN [prop EXCEPT !.IsTransitive = TRUE]
            ELSE IF IsTyped(trp, OWLSymmetricProperty) THEN [prop EXCEPT !.IsSymmetric = TRUE]
            ELSE IF IsTyped(trp, OWLAsymmetricProperty) THEN [prop EXCEPT !.IsAsymmetric = TRUE]
            ELSE IF IsTyped(trp, OWLReflexiveProperty) THEN [prop EXCEPT !.IsReflexive = TRUE]
            ELSE IF IsTyped(trp, OWLIrreflexiveProperty)
            THEN [prop EXCEPT !.IsIrreflexive = TRUE]
            ELSE IF trp.Predicate = NewResourceTerm(RDFSLabel)
            THEN [prop EXCEPT !.Label = MapPut(@, Language(trp.Object), Value(trp.Object))]
            ELSE IF trp.Predicate = NewResourceTerm(RDFSComment)
            THEN [prop EXCEPT !.Comment = MapPut(@, Language(trp.Object), Value(trp.Object))]
            ELSE prop
    IN  IF i > Len(trps) THEN prop
        ELSE ParseObjectProperty(trps, i + 1, Step(trps[i]), propURI)

\* the loop of GetDataProperty
RECURSIVE ParseDataProperty(_, _, _, _)
ParseDataProperty(trps, i, prop, propURI) ==
    LET Step(trp) ==
            IF IsTyped(trp, OWLDatatypeProperty) THEN [prop EXCEPT !.URI = propURI]
            ELSE IF trp.Predicate = NewResourceTerm(OWLEquivalentProperty)
            THEN [prop EXCEPT !.EquivalentTo = Append(@, Value(trp.Object))]
            ELSE IF trp.Predicate = NewResourceTerm(RDFSSubPropertyOf)
            THEN [prop EXCEPT !.SubPropertyOf = Append(@, Value(trp.Object))]
            ELSE IF trp.Predicate = NewResourceTerm(RDFSDomain)
            THEN [prop EXCEPT !.Domains = Append(@, Value(trp.Object))]
            ELSE IF trp.Predicate = NewResourceTerm(RDFSRange)
            THEN [prop EXCEPT !.Ranges = Append(@, Value(trp.Object))]
            ELSE IF trp.Predicate = NewResourceTerm(OWLPropertyDisjointWith)
            THEN [prop EXCEPT !.DisjointWith = Append(@, Value(trp.Object))]
            ELSE IF IsTyped(trp, OWLFunctionalProperty) THEN [prop EXCEPT !.IsFunctional = TRUE]
            ELSE IF trp.Predicate = NewResourceTerm(RDFSLabel)
            THEN [prop EXCEPT !.Label = MapPut(@, Language(trp.Object), Value(trp.Object))]
            ELSE IF trp.Predicate = NewResourceTerm(RDFSComment)
            THEN [prop EXCEPT !.Comment = MapPut(@, Language(trp.Object), Value(trp.Object))]
            ELSE prop
    IN  IF i > Len(trps) THEN prop
        ELSE ParseDataProperty(trps, i + 1, Step(trps[i]), propURI)

\* the loop of GetDatatype
RECURSIVE ParseDatatype(_, _, _, _)
ParseDatatype(trps, i, prop, uri_) ==
    LET Step(trp) ==
            IF IsTyped(trp, RDFSDatatype) THEN [prop EXCEPT !.URI = uri_]
            ELSE IF trp.Predicate = NewResourceTerm(RDFSLabel)
            THEN [prop EXCEPT !.Label = MapPut(@, Language(trp.Object), Value(trp.Object))]
            ELSE IF trp.Predicate = NewResourceTerm(RDFSComment)
            THEN [prop EXCEPT !.Comment = MapPut(@, Language(trp.Object), Value(trp.Object))]
            ELSE prop
    IN  IF i > Len(trps) THEN prop
        ELSE ParseDatatype(trps, i + 1, Step(trps[i]), uri_)

\* a getter on the in-memory store: GetAllMatches(<uri>, "", "") panics in
\* toTerm when <uri> is no term; otherwise the triples are parsed and the
\* entity is found when its URI was set
GetEntity(g, kind, resourceURI, ord) ==
    LET Resolved(e, zero) ==
            IF e.URI = <<>> THEN Found(zero, ErrResourceNotFound) ELSE Found(e, Nil)
        Of(m) ==
            IF m.err # Nil THEN Found(<<>>, m.err)
            ELSE IF kind = "Class"
            THEN Resolved(ParseClass(m.triples, 1, ZeroClass, resourceURI), ZeroClass)
            ELSE IF kind = "ObjectProperty"
            THEN Resolved(ParseObjectProperty(m.triples, 1, ZeroObjectProperty, resourceURI),
                        ZeroObjectProperty)
            ELSE IF kind = "DataProperty"
            THEN Resolved(ParseDataProperty(m.triples, 1, ZeroDataProperty, resourceURI),
                        ZeroDataProperty)
            ELSE IF kind = "Datatype"
            THEN Resolved(ParseDatatype(m.triples, 1, ZeroDatatype, resourceURI), ZeroDatatype)
            ELSE Resolved(ParseIndividual(m.triples, 1, ZeroIndividual, resourceURI),
                        ZeroIndividual)
    IN  Of(GetAllMatchesOutcome(g, NewResourceTerm(resourceURI), <<>>, <<>>, ord))

GetObjectProperty(g, propURI, ord) == GetEntity(g, "ObjectProperty", propURI, ord)
GetDataProperty(g, propURI, ord) == GetEntity(g, "DataProperty", propURI, ord)
GetDatatype(g, datatypeURI, ord) == GetEntity(g, "Datatype", datatypeURI, ord)

\* the type marker of each kind of entity
Marker(kind) ==
    IF kind = "Class" THEN OWLClass
    ELSE IF kind = "ObjectProperty" THEN OWLObjectProperty
    ELSE IF kind = "DataProperty" THEN OWLDatatypeProperty
    ELSE IF kind = "Datatype" THEN RDFSDatatype
    ELSE OWLNamedIndividual

Kinds == {"Class", "ObjectProperty", "DataProperty", "Datatype", "Individual"}

EntityP == InGraph(<<"p">>)

\* the triples the callers put under the subject p: the five markers, a
\* characteristic, a domain and a label
KindTriples ==
    { NewTriple(NewResourceTerm(EntityP), NewResourceTerm(RDFType),
                NewResourceTerm(Marker(k))).trp : k \in Kinds }
    \cup
    { NewTriple(NewResourceTerm(EntityP), NewResourceTerm(RDFType),
                NewResourceTerm(OWLFunctionalProperty)).trp,
      NewTriple(NewResourceTerm(EntityP), NewResourceTerm(RDFSDomain),
                NewResourceTerm(ClassK)).trp,
      NewTriple(NewResourceTerm(EntityP), NewResourceTerm(RDFSLabel),
                NewLiteralTerm(<<"l">>, <<"e">>, <<>>)).trp }

\* the URIs looked up: p, a URI the store never holds, and the empty string
LookupURIs == {EntityP, InGraph(<<"q">>), <<>>}

CallAddKindTriple ==
    \E t \in KindTriples : StoreCall("AddTriple", <<t>>, AddTriple(graph, t))

CallDeleteKindTriple ==
    \E t \in KindTriples : StoreCall("DeleteTriple", <<t>>, DeleteTriple(graph, t))

CallGetter(name, kind) ==
    /\ last = Idle
    /\ \E resourceURI \in LookupURIs, ord \in IterOrders(graph) :
        \E r \in {GetEntity(graph, kind, resourceURI, ord)} :
            last' = Call(name, <<resourceURI, kind>>, r.err, r.res)
    /\ UNCHANGED <<uri, graph, label, comment, outer, inner, held, running>>

CallGetClassOf == CallGetter("GetClass", "Class")
CallGetObjectProperty == CallGetter("GetObjectProperty", "ObjectProperty")
CallGetDataProperty == CallGetter("GetDataProperty", "DataProperty")
CallGetDatatype == CallGetter("GetDatatype", "Datatype")
CallGetIndividualOf == CallGetter("GetIndividual", "Individual")

NextGet ==
    \/ CallAddKindTriple
    \/ CallDeleteKindTriple
    \/ CallGetClassOf
    \/ CallGetObjectProperty
    \/ CallGetDataProperty
    \/ CallGetDatatype
    \/ CallGetIndividualOf
    \/ Return

SpecGet == InitOnt /\ [][NextGet]_vars

Getters == {"GetClass", "GetObjectProperty", "GetDataProperty", "GetDatatype", "GetIndividual"}

\* the store holds the triple (<u>, rdf:type, marker of the kind)
HasTypeMarker(g, u, kind) ==
    \E t \in BagToSet(g) :
        /\ t.Subject = RdfTerm("Resource", u, <<>>, <<>>)
        /\ t.Predicate = RdfTerm("Resource", RDFType, <<>>, <<>>)
        /\ t.Object = RdfTerm("Resource", Marker(kind), <<>>, <<>>)

\* C25: a getter on u returns ErrResourceNotFound exactly when the store
\* lacks the triple (<u>, rdf:type, marker of its kind), whatever other
\* triples with subject <u> exist, and returns the entity with URI u otherwise.
C25_GettersByMarker ==
    last.op \in Getters =>
        IF HasTypeMarker(graph, last.args[1], last.args[2])
        THEN last.err = Nil /\ last.out.URI = last.args[1]
        ELSE last.err = ErrResourceNotFound


(***************************************************************************)
(* OntologyGraph: GetIndividuals and a candidate that fails                *)
(***************************************************************************)

\* filters whose candidates are of more than one kind: the individuals of
\* the class K and the subclasses of T, in either order of the two groups
LoadFilters ==
    { Shown(ThenOrWithObjectProperty(ThenOrWithClass(NoFilter, ClassK), RDFSSubClassOf, ClassT)),
      Shown(ThenOrWithClass(ThenOrWithObjectProperty(NoFilter, RDFSSubClassOf, ClassT), ClassK)) }

\* GetIndividuals(filters), the iteration orders of its scans noted
CallGetIndividualsIn ==
    /\ last = Idle
    /\ \E filters \in LoadFilters :
        \E ords \in [1..Scans(filters) -> IterOrders(graph)] :
            \E r \in {GetIndividuals(graph, filters, ords)} :
                /\ last' = Call("GetIndividuals", <<filters, ords>>, r.err, r.indivs)
                /\ UNCHANGED <<uri, graph, label, comment, outer, inner, held, running>>

NextLoad ==
    \/ CallUpsertResource
    \/ CallDeleteResource
    \/ CallGetIndividualsIn
    \/ Return

SpecLoad == InitOnt /\ [][NextLoad]_vars

\* the candidates of a query in the order the scans discovered them
Discovered(g, filters, ords) == FilterCandidates(g, filters, 1, <<>>, ords, 1)

\* the first candidate that does not reconstruct; one past the end when all do
FirstFailing(g, cands, ord) ==
    SetMin({k \in 1..Len(cands) : GetIndividual(g, cands[k], ord).err # Nil}
           \cup {Len(cands) + 1})

\* C26: when the reconstruction of a candidate fails, GetIndividuals returns
\* that error together with exactly the individuals reconstructed before that
\* candidate, in discovery order, and the store is as before the call.
C26_StopsAtFirstFailure ==
    (last.op = "GetIndividuals" /\ Len(last.args) = 2) =>
        LET Settled(cands, k) ==
                /\ graph = last.pre
                /\ Len(last.out) = k - 1
                /\ \A j \in 1..(k - 1) :
                       last.out[j] = GetIndividual(last.pre, cands[j], last.args[2][1]).res
                /\ IF k > Len(cands) THEN last.err = Nil
                   ELSE last.err = GetIndividual(last.pre, cands[k], last.args[2][1]).err
        IN  \E cands \in {Discovered(last.pre, last.args[1], last.args[2])} :
                Settled(cands, FirstFailing(last.pre, cands, last.args[2][1]))

\* a query found an individual and then a class: it returned the individual
\* and the error
C26_Witness ==
    /\ last.op = "GetIndividuals"
    /\ Len(last.args) = 2
    /\ last.err = ErrResourceNotFound
    /\ Len(last.out) = 1
    /\ Len(Discovered(last.pre, last.args[1], last.args[2])) = 2
    /\ last.out[1].URI = Discovered(last.pre, last.args[1], last.args[2])[1]


(***************************************************************************)
(* MemoryStore: a bulk call and a second caller                            *)
(***************************************************************************)

TripleA ==
    NewTriple(NewResourceTerm(InGraph(<<"a">>)), NewResourceTerm(InGraph(<<"r">>)),
              NewLiteralTerm(<<"v">>, <<>>, <<>>)).trp
TripleB ==
    NewTriple(NewResourceTerm(BaseURI), NewResourceTerm(InGraph(<<"r">>)),
              NewResourceTerm(InGraph(<<"a">>))).trp

\* the lists of the bulk call and the operations of the second caller
SteppedLists == UNION {[1..n -> {TripleA, TripleB}] : n \in 1..2}
BulkOps == {"AddTriples", "DeleteTriples"}
SingleOps == {"AddTriple", "AddTripleUnchecked", "DeleteTriple", "DeleteTripleUnchecked"}

\* a whole bulk call, and a whole single-triple call
Bulk(g, op, trps) == IF op = "AddTriples" THEN AddTriples(g, trps) ELSE DeleteTriples(g, trps)

Single(g, op, trp) ==
    IF op = "AddTriple" THEN AddTriple(g, trp)
    ELSE IF op = "AddTripleUnchecked" THEN AddTripleUnchecked(g, trp)
    ELSE IF op = "DeleteTriple" THEN DeleteTriple(g, trp)
    ELSE DeleteTripleUnchecked(g, trp)

\* err = store.AddTriple(trp), err = store.DeleteTriple(trp) in the loops
LoopStep(g, r) ==
    IF r.op = "AddTriples" THEN AddTriple(g, r.trps[r.i]) ELSE DeleteTriple(g, r.trps[r.i])

RevokeEvery(g, r) ==
    IF r.op = "AddTriples" THEN DeleteTriplesUnchecked(g, r.trps)
    ELSE AddTriplesUnchecked(g, r.trps)

\* _ = store.DeleteTriplesUnchecked(addedTrps), _ = store.AddTriplesUnchecked(deletedTrps)
Revoke(g, r) ==
    IF r.op = "AddTriples" THEN DeleteTriplesUnchecked(g, r.done)
    ELSE AddTriplesUnchecked(g, r.done)

\* an earlier, completed call stored a triple
Prepare ==
    /\ running = NoCall
    /\ \E t \in {TripleA, TripleB} :
        /\ AddTriple(graph, t).err = Nil
        /\ graph' = AddTriple(graph, t).graph
    /\ UNCHANGED <<uri, label, comment, outer, inner, held, last, running>>

\* the first caller enters AddTriples(trps) or DeleteTriples(trps)
BeginBulk ==
    /\ running.pc = "idle"
    /\ \E op \in BulkOps, trps \in SteppedLists :
        running' = [running EXCEPT !.pc = "loop", !.op = op, !.trps = trps, !.i = 1,
                                   !.start = IF running.second = <<>> THEN graph ELSE @]
    /\ UNCHANGED <<uri, graph, label, comment, outer, inner, held, last>>

\* one iteration of the loop, or its end
StepBulk ==
    /\ running.pc = "loop"
    /\ IF running.i > Len(running.trps)
       THEN /\ running' = [running EXCEPT !.pc = "done"]
            /\ graph' = graph
       ELSE \E r \in {LoopStep(graph, running)} :
            /\ graph' = r.graph
            /\ running' = IF r.err # Nil
                          THEN [running EXCEPT !.pc = "revoke", !.err = r.err]
                          ELSE [running EXCEPT !.i = @ + 1,
                                               !.done = Append(@, running.trps[running.i])]
    /\ UNCHANGED <<uri, label, comment, outer, inner, held, last>>

\* the rollback after the error, and the return of the error
RevokeBulk ==
    /\ running.pc = "revoke"
    /\ graph' = Revoke(graph, running).graph
    /\ running' = [running EXCEPT !.pc = "done"]
    /\ UNCHANGED <<uri, label, comment, outer, inner, held, last>>

\* the second caller's call falls between the per-triple steps of the bulk
\* call when a step was made and the call has neither ended its loop without
\* error nor returned
Between(r) ==
    \/ r.pc = "revoke"
    \/ r.pc = "loop" /\ r.i > 1 /\ r.i <= Len(r.trps)

\* the second caller runs one single-triple operation
SecondCall ==
    /\ running.second = <<>>
    /\ \E op \in SingleOps, t \in {TripleA, TripleB} :
        \E r \in {Single(graph, op, t)} :
            /\ graph' = r.graph
            /\ running' =
                   [running EXCEPT
                       !.second = <<[op |-> op, trp |-> t, err |-> r.err]>>,
                       !.start = IF running.pc = "idle" THEN graph ELSE @,
                       !.order = IF Between(running) THEN "mixed"
                                 ELSE IF running.pc = "idle" \/ running.i = 1 THEN "21"
                                 ELSE "12"]
    /\ UNCHANGED <<uri, label, comment, outer, inner, held, last>>

\* both calls have returned; the callers go on from the store as it is
BothReturn ==
    /\ running.pc = "done"
    /\ running.second # <<>>
    /\ running' = NoCall
    /\ UNCHANGED <<uri, graph, label, comment, outer, inner, held, last>>

NextTwo ==
    \/ Prepare
    \/ BeginBulk
    \/ StepBulk
    \/ RevokeBulk
    \/ SecondCall
    \/ BothReturn

SpecTwo == Init /\ [][NextTwo]_vars

\* both calls have returned
BothDone == running.pc = "done" /\ running.second # <<>>

\* the store after the two calls run one after the other, in either order
BulkThenSingle(r) ==
    Single(Bulk(r.start, r.op, r.trps).graph, r.second[1].op, r.second[1].trp).graph

SingleThenBulk(r) ==
    Bulk(Single(r.start, r.second[1].op, r.second[1].trp).graph, r.op, r.trps).graph

\* C27: when the second caller's call does not fall between the per-triple
\* steps of the bulk call, the store after both calls is the result of one of
\* the two serial orders; a store that differs from both is reached only with
\* such an interleaving.
C27_SerialUnlessInterleaved ==
    (BothDone /\ graph \notin {BulkThenSingle(running), SingleThenBulk(running)}) =>
        running.order = "mixed"

\* the second caller's AddTripleUnchecked returned nil between the steps of
\* an AddTriples that then failed, and the rollback removed the triple: it is
\* in the store after either serial order and not in the store reached
C27_Witness ==
    /\ BothDone
    /\ running.order = "mixed"
    /\ running.op = "AddTriples"
    /\ running.err = ErrTripleAlreadyExists
    /\ running.second[1].op = "AddTripleUnchecked"
    /\ running.second[1].err = Nil
    /\ ~BagIn(RdfTriple(running.second[1].trp), graph)
    /\ BagIn(RdfTriple(running.second[1].trp), BulkThenSingle(running))
    /\ BagIn(RdfTriple(running.second[1].trp), SingleThenBulk(running))


(***************************************************************************)
(* Term: classification                                                    *)
(***************************************************************************)

\* C28: no term is both a resource and a literal, and no literal term reports
\* both a non-empty Language() and a non-empty Datatype(); a call that panics
\* reports nothing.
C28_TermClassification ==
    last.op \in {"NewResourceTerm", "NewLiteralTerm"} =>
        /\ ~(last.out.isResource /\ last.out.isLiteral)
        /\ last.out.isLiteral =>
               ~(/\ last.out.language \notin {<<>>, PanicString}
                 /\ last.out.datatype \notin {<<>>, PanicString})


(***************************************************************************)
(* OntologyGraph: the marker under the operations of the ontology          *)
(***************************************************************************)

\* AddImport(uri) on the store g whose graph URI is u
AddImport(g, u, importURI) ==
    AddTriple(g, Triple(NewResourceTerm(u), NewResourceTerm(OWLImports),
                        NewResourceTerm(importURI)))

\* the ontologies imported, and the URIs handed to DeleteResource: those of
\* the resources and the URI of the ontology itself
ImportURIs == {<<"c">>}
DeletedURIs == {IndivI, ClassK, BaseURI}

CallAddImport ==
    \E importURI \in ImportURIs :
        StoreCall("AddImport", <<importURI>>, AddImport(graph, uri, importURI))

CallSetOneLabel ==
    /\ last = Idle
    /\ \E r \in {SetLabel(graph, uri, label, <<"l">>, <<"e">>)} :
        /\ graph' = r.graph
        /\ label' = r.map
        /\ last' = Call("SetLabel", <<<<"l">>, <<"e">>>>, r.err, <<>>)
    /\ UNCHANGED <<uri, comment, outer, inner, held, running>>

CallSetOneComment ==
    /\ last = Idle
    /\ \E r \in {SetComment(graph, uri, comment, <<"m">>, <<>>)} :
        /\ graph' = r.graph
        /\ comment' = r.map
        /\ last' = Call("SetComment", <<<<"m">>, <<>>>>, r.err, <<>>)
    /\ UNCHANGED <<uri, label, outer, inner, held, running>>

CallSetOneVersion ==
    /\ last = Idle
    /\ \E ord \in IterOrders(graph) :
        \E r \in {SetVersion(graph, uri, <<"1">>, ord)} :
            /\ graph' = r.graph
            /\ last' = Call("SetVersion", <<<<"1">>>>, r.err, <<>>)
    /\ UNCHANGED <<uri, label, comment, outer, inner, held, running>>

CallDeleteAnyResource ==
    /\ last = Idle
    /\ \E resourceURI \in DeletedURIs, ord \in IterOrders(graph) :
        \E r \in {DeleteResource(graph, resourceURI, ord)} :
            /\ graph' = r.graph
            /\ last' = Call("DeleteResource", <<resourceURI>>, r.err, <<>>)
    /\ UNCHANGED <<uri, label, comment, outer, inner, held, running>>

NextKeep ==
    \/ CallSetOneLabel
    \/ CallSetOneComment
    \/ CallSetOneVersion
    \/ CallAddImport
    \/ CallUpsertResource
    \/ CallDeleteAnyResource
    \/ CallLoadOntologyGraph
    \/ Return

SpecKeep == InitOnt /\ [][NextKeep]_vars

\* C29: after InitOntologyGraph has succeeded the marker triple stays in the
\* store under SetLabel, SetComment, SetVersion, AddImport, UpsertResource and
\* DeleteResource with any arguments, and LoadOntologyGraph succeeds.
C29_MarkerStays ==
    /\ HasMarker(graph, uri)
    /\ last.op = "LoadOntologyGraph" => last.err = Nil


(***************************************************************************)
(* OntologyGraph: the kinds a URI resolves as                              *)
(***************************************************************************)

\* resources that share the URI p: an individual of the class K, a class, and
\* an individual whose types list the URI owl:Class
KindResources ==
    { Individual(EntityP, <<ClassK>>, <<>>, EmptyMap, EmptyMap, EmptyMap, EmptyMap),
      Class(EntityP, <<>>, <<ClassT>>, <<>>, EmptyMap, EmptyMap),
      Individual(EntityP, <<OWLClass>>, <<>>, EmptyMap, EmptyMap, EmptyMap, EmptyMap) }

CallUpsertKind ==
    /\ last = Idle
    /\ \E resource \in KindResources, ord \in IterOrders(graph) :
        \E r \in {UpsertResource(graph, uri, resource, ord)} :
            /\ graph' = r.graph
            /\ last' = Call("UpsertResource", <<resource>>, r.err, <<>>)
    /\ UNCHANGED <<uri, label, comment, outer, inner, held, running>>

CallDeleteKind ==
    /\ last = Idle
    /\ \E ord \in IterOrders(graph) :
        \E r \in {DeleteResource(graph, EntityP, ord)} :
            /\ graph' = r.graph
            /\ last' = Call("DeleteResource", <<EntityP>>, r.err, <<>>)
    /\ UNCHANGED <<uri, label, comment, outer, inner, held, running>>

NextKind ==
    \/ CallUpsertResource
    \/ CallUpsertKind
    \/ CallDeleteResource
    \/ CallDeleteKind
    \/ CallGetClassOf
    \/ CallGetObjectProperty
    \/ CallGetDataProperty
    \/ CallGetDatatype
    \/ CallGetIndividualOf
    \/ Return

SpecKind == InitOnt /\ [][NextKind]_vars

\* C30: after UpsertResource(r) succeeds for a resource r of kind K with URI
\* u, the getter of K succeeds on u and the getters of the other four kinds
\* return ErrResourceNotFound on u.
C30_OneKind ==
    (last.op = "UpsertResource" /\ last.err = Nil) =>
        \A kind \in Kinds, ord \in IterOrders(graph) :
            \E got \in {GetEntity(graph, kind, GetURI(last.args[1]), ord)} :
                IF kind = last.args[1].kind
                THEN got.err = Nil /\ got.res.URI = GetURI(last.args[1])
                ELSE got.err = ErrResourceNotFound

====
